---- MODULE Spec2Model ----
(***************************************************************************)
(* Model of the ws-extension decision core:                                *)
(*   - the Kelly-based BaccaratStrategy (src/desktop-app/run_host.sh),     *)
(*   - the PerformanceTracker (src/performance.js, first class),           *)
(*   - the confidence-index BaccaratStrategy with its SPRT and CUSUM       *)
(*     detectors (src/strategy.js),                                        *)
(*   - the length-diffing session manager processBaccaratData and the      *)
(*     message pump that calls it (src/unnamed/part_002).                  *)
(*                                                                         *)
(* Number representation.  JavaScript numbers are modelled in fixed point: *)
(*   net_profit, net_profit_units : hundredths of a unit (0.95 u = 95)     *)
(*   baseline rates               : ten-thousandths (0.4585 = 4585)        *)
(*   shrunk counts                : ten-thousandths of a pseudo-count      *)
(*   p_b_star, cusum_sum, log_lr  : ten-thousandths, rounded to nearest    *)
(* Stake tiers and the EV sign are decided by exact integer cross          *)
(* multiplication of the same rationals the code divides.                  *)
(***************************************************************************)
EXTENDS Integers, Sequences, FiniteSets, TLC

(***************************************************************************)
(* Bounds of the model                                                     *)
(***************************************************************************)
\* valid outcomes accepted per shoe by the stand-alone engine
MaxRound == 16
\* maximal runs of equal outcomes per shoe of the stand-alone engine
MaxRuns == 3
\* longest results list the upstream reports for one shoe
MaxLen == 14
\* shoes the upstream plays on one stream
MaxShoes == 2
\* rounds per shoe and runs of equal outcomes per shoe when both engines run
MaxBothRound == 13
MaxBothRuns == 2

(***************************************************************************)
(* Program constants                                                       *)
(***************************************************************************)
GLOBAL_BANKER_RATE == 4585
GLOBAL_PLAYER_RATE == 4462
GLOBAL_TIE_RATE == 953
\* config defaults of the constructor
warm_up_rounds == 12
max_exposure == 10
net_profit_stop_loss_units == -3
shrinkage_strength == 5
\* kelly_fraction 0.5, in hundredths
kelly_fraction == 50
\* cusum: { drift: 0.05, threshold: 4 }, in ten-thousandths
cusum_drift == 500
cusum_threshold == 40000
\* payout 0.95 and the unit, in hundredths
PayoutWin == 95
PayoutUnit == 100

Outcomes == {"B", "P", "T"}
\* what a caller may hand to addOutcome: the categories and an unrecognized tag
Inputs == Outcomes \cup {"X"}

DefaultPrior == [B |-> 1, P |-> 1, T |-> 1]
\* priors handed to the constructor / resetShoe in the stand-alone engine
Priors == {DefaultPrior, [B |-> 2, P |-> 5, T |-> 1]}

StopNetProfit == "Net profit reached -3 units"
StopMaxExposure == "Max exposure of 10 units reached"

VARIABLES
    strategy,      \* the stand-alone BaccaratStrategy instance
    returned,      \* return value of the last call on it: <<>> or <<log>>
    shoe_prior,    \* the prior handed to the last resetShoe of it
    feed,          \* upstream: per stream, the shoe being played and its results list
    tableStates,   \* per stream: <<>> or <<[strategy, tracker, lastRound, hasStopped]>>
    globalPriors,  \* per stream: <<>> or <<prior>>
    reported,      \* per stream: the results list of the last report processed
    chain,         \* per stream: every report of the session extended the one before
    lastOp,        \* the last event handled by the session manager
    ci_strategy,   \* the stand-alone BaccaratStrategy instance of src/strategy.js
    ci_returned,   \* return value of the last call on it: <<>> or <<log>>
    latestMessage, \* <<>> (null) or <<the parsed message stored by ws.onmessage>>
    isProcessing,  \* the flag of processLatestMessage
    pc,            \* where the running task of the worker stands; "idle": none runs
    messageToProcess, \* the message processLatestMessage took: <<>> or <<message>>
    remaining,     \* the entries of its args the for-in loop has still to visit
    timer,         \* a processLatestMessage call is scheduled with setTimeout
    received,      \* number of WebSocket messages delivered so far
    processed,     \* number (in arrival order) of the last message taken, 0 if none
    solo,          \* per stream: <<state, prior>> of the stream fed its reports alone
    p_win,         \* first argument of the getStakeUnitKelly call, in 1/KellyGrid
    p_lose,        \* its second argument, in 1/KellyGrid
    kelly_stake,   \* what the call returned: <<>> before it returns, then <<units>>
    tracker,       \* a PerformanceTracker instance (first class of performance.js)
    dual_tracker,  \* an instance of the dual-mode PerformanceTracker
    calls,         \* the recordDecision calls both have had since their reset
    arg_x,         \* the number handed to the special functions as x and as p
    arg_a,         \* the alpha parameter of the call
    arg_b,         \* the beta parameter of the call
    beta_out,      \* <<>> before the calls return, then <<[cdf, inv, round]>>
    sent,          \* the payloads of the frames the extension has written, in order
    wire,          \* the bytes written and not yet read from stdin
    messageBuffer, \* the buffer of the stdin handler
    forwarded,     \* the messages sent to the renderer as 'ws-message', in order
    mainWindow,    \* "open", or "destroyed" after the window was closed
    closed_once,   \* the window has been closed at some time
    cal_lo,        \* the confidence of a getCalibratedConfidence call, in 1/ConfGrid
    cal_hi,        \* the confidence of a second call, in 1/ConfGrid
    cal_out,       \* <<>> before the calls return, then <<of cal_lo, of cal_hi>>
    all_strategy,  \* a BaccaratStrategy constructed with ensemble_mode 'require_all'
    all_returned,  \* return value of the last call on it: <<>> or <<log>>
    net,           \* the connection globals of the worker (ws, config, the two
                   \* timeout variables) with the sockets created, the cookie
                   \* lookups in flight and the timers pending
    logged,        \* the entries handed to logCalibrationData so far, in order
    calibrationData,  \* the list stored under 'calibrationData' in chrome.storage.local
    storage_requests, \* the get and set calls the storage has not served yet, in order
    storage_results   \* the results of served gets whose callback has not run yet

evars == <<strategy, returned, shoe_prior>>
mvars == <<feed, tableStates, globalPriors, reported, chain, lastOp>>
civars == <<ci_strategy, ci_returned>>
pvars == <<latestMessage, isProcessing, pc, messageToProcess, remaining, timer,
           received, processed, solo>>
kvars == <<p_win, p_lose, kelly_stake>>
tvars == <<tracker, dual_tracker, calls>>
svars == <<arg_x, arg_a, arg_b, beta_out>>
rvars == <<sent, wire, messageBuffer, forwarded, mainWindow, closed_once>>
gvars == <<cal_lo, cal_hi, cal_out>>
avars == <<all_strategy, all_returned>>
nvars == <<net>>
lvars == <<logged, calibrationData, storage_requests, storage_results>>
xvars == <<gvars, avars, nvars, lvars>>
\* the variables of the engines, the worker and the components above
ovars == <<evars, mvars, civars, pvars, kvars, tvars, svars, rvars>>
fvars == <<kvars, tvars, svars, rvars, xvars>>
vars == <<strategy, returned, shoe_prior, feed, tableStates, globalPriors,
          reported, chain, lastOp, ci_strategy, ci_returned,
          latestMessage, isProcessing, pc, messageToProcess, remaining, timer,
          received, processed, solo, p_win, p_lose, kelly_stake,
          tracker, dual_tracker, calls, arg_x, arg_a, arg_b, beta_out,
          sent, wire, messageBuffer, forwarded, mainWindow, closed_once,
          cal_lo, cal_hi, cal_out, all_strategy, all_returned, net,
          logged, calibrationData, storage_requests, storage_results>>

(***************************************************************************)
(* BaccaratStrategy (Kelly based)                                          *)
(***************************************************************************)
Max(a, b) == IF a >= b THEN a ELSE b

RECURSIVE CountOf(_, _)
CountOf(s, x) ==
    IF s = <<>> THEN 0
    ELSE (IF Head(s) = x THEN 1 ELSE 0) + CountOf(Tail(s), x)

\* Array.prototype.slice(-n)
SliceLast(s, n) == IF Len(s) <= n THEN s ELSE SubSeq(s, Len(s) - n + 1, Len(s))

resetShoe(config_prior, prior) ==
    [ initial_prior          |-> config_prior,
      counts                 |-> prior,
      round                  |-> 0,
      net_profit             |-> 0,
      total_staked           |-> 0,
      betting_disabled       |-> FALSE,
      stop_reason            |-> "null",
      recent_outcomes        |-> <<>>,
      change_point_detected  |-> FALSE,
      current_decision_log   |-> <<>>,
      current_max_exposure   |-> max_exposure,
      current_stop_loss      |-> net_profit_stop_loss_units,
      betting_disabled_cusum |-> FALSE,
      cusum_sum              |-> 0 ]

\* new BaccaratStrategy({ initial_prior: prior })
NewStrategy(prior) == resetShoe(prior, prior)

\* shrunk_counts, in ten-thousandths
ShrunkCounts(counts) ==
    [ B |-> 10000 * counts.B + shrinkage_strength * GLOBAL_BANKER_RATE,
      P |-> 10000 * counts.P + shrinkage_strength * GLOBAL_PLAYER_RATE,
      T |-> 10000 * counts.T + shrinkage_strength * GLOBAL_TIE_RATE ]

\* numerator of (p_win * 0.95 - p_lose) over the common denominator 100 * total
EdgeNum(sh) == PayoutWin * sh.B - PayoutUnit * sh.P

\* getStakeUnitKelly with the tier thresholds inclusive (>= for >)
getStakeUnitKellyInclusive(sh) ==
    LET total == sh.B + sh.P + sh.T
        num   == EdgeNum(sh)
        AtLeast(t) == kelly_fraction * num >= PayoutWin * t * total
    IN  IF num <= 0 THEN 0
        ELSE IF AtLeast(15) THEN 4
        ELSE IF AtLeast(10) THEN 3
        ELSE IF AtLeast(5) THEN 2
        ELSE IF AtLeast(2) THEN 1
        ELSE 0

\* getStakeUnitKelly that sizes the stake on the magnitude of the edge
getStakeUnitKellyAbs(sh) ==
    LET total == sh.B + sh.P + sh.T
        num   == IF EdgeNum(sh) < 0 THEN 0 - EdgeNum(sh) ELSE EdgeNum(sh)
        Above(t) == kelly_fraction * num > PayoutWin * t * total
    IN  IF Above(15) THEN 4
        ELSE IF Above(10) THEN 3
        ELSE IF Above(5) THEN 2
        ELSE IF Above(2) THEN 1
        ELSE 0

\* getStakeUnitKelly(posterior_mean.B, posterior_mean.P) on the shrunk counts:
\*   kelly_fraction = EdgeNum / (95 * total), stake_fraction = 0.5 * kelly_fraction,
\*   stake_fraction > t/100  <=>  kelly_fraction(cfg) * EdgeNum > 95 * t * total
getStakeUnitKelly(sh) ==
    LET total == sh.B + sh.P + sh.T
        num   == EdgeNum(sh)
        Above(t) == kelly_fraction * num > PayoutWin * t * total
    IN  IF num <= 0 THEN 0
        ELSE IF Above(15) THEN 4
        ELSE IF Above(10) THEN 3
        ELSE IF Above(5) THEN 2
        ELSE IF Above(2) THEN 1
        ELSE 0

\* a / b rounded to the nearest integer, for b > 0
RoundDiv(a, b) == (2 * a + b) \div (2 * b)

\* p_b_star = (1 - posterior_mean.T) / 1.95, in ten-thousandths (rounded to
\* the nearest)
PBStar(sh) ==
    LET total == sh.B + sh.P + sh.T
        q     == RoundDiv((sh.B + sh.P) * 2000, total)
    IN  RoundDiv(q * 100, 39)

getMomentumSignal(recent) ==
    LET window == SliceLast(recent, 15)
    IN  IF Len(window) < 10 THEN FALSE
        ELSE CountOf(window, "B") > CountOf(window, "P")

getStreakSignal(recent) ==
    IF Len(recent) < 3 THEN FALSE
    ELSE \A i \in 1..3 : SliceLast(recent, 3)[i] = "B"

getChopSignal(recent) ==
    IF Len(recent) < 4 THEN FALSE
    ELSE SliceLast(recent, 4) = <<"B", "P", "B", "P">>

\* getEnsembleSignal that is content with two agreeing signals under
\* 'require_all'
getEnsembleSignalOfMajority(ensemble_mode, recent) ==
    LET signals == <<getMomentumSignal(recent), getStreakSignal(recent),
                     getChopSignal(recent)>>
        agreeing_signals == Cardinality({i \in 1..3 : signals[i]})
    IN  IF ensemble_mode = "require_all" THEN agreeing_signals >= 2
        ELSE agreeing_signals > 0

\* getEnsembleSignal, lines 212-222, under config.ensemble_mode
getEnsembleSignalOf(ensemble_mode, recent) ==
    LET signals == <<getMomentumSignal(recent), getStreakSignal(recent),
                     getChopSignal(recent)>>
        agreeing_signals == Cardinality({i \in 1..3 : signals[i]})
    IN  IF ensemble_mode = "require_all" THEN agreeing_signals = Len(signals)
        ELSE agreeing_signals > 0

\* ensemble_mode 'require_one' (the default)
getEnsembleSignal(recent) ==
    getMomentumSignal(recent) \/ getStreakSignal(recent) \/ getChopSignal(recent)

\* updateLegacySystems without the test of the latch: the sum keeps moving
\* and the flags follow it
updateLegacySystemsNoLatch(e, outcome, p_b_star) ==
    LET x_t == IF outcome = "B" THEN 10000 ELSE 0
        sum == Max(0, e.cusum_sum + (x_t - (p_b_star + cusum_drift)))
    IN  [e EXCEPT !.cusum_sum = sum,
                  !.betting_disabled_cusum = (sum > cusum_threshold),
                  !.change_point_detected = (sum > cusum_threshold)]

\* updateLegacySystems: the one-sided CUSUM and its latch
updateLegacySystems(e, outcome, p_b_star) ==
    LET x_t == IF outcome = "B" THEN 10000 ELSE 0
        sum == Max(0, e.cusum_sum + (x_t - (p_b_star + cusum_drift)))
    IN  IF e.betting_disabled_cusum THEN e
        ELSE [e EXCEPT !.cusum_sum = sum,
                       !.betting_disabled_cusum = (sum > cusum_threshold),
                       !.change_point_detected =
                           IF sum > cusum_threshold THEN TRUE ELSE @]

\* Settle with a tie treated as a push: a bet on 'B' is not lost on 'T'
SettleTiePush(e, outcome) ==
    IF e.current_decision_log = <<>> THEN e.net_profit
    ELSE LET last_decision == e.current_decision_log[1].decision
         IN  IF last_decision.stake > 0
             THEN IF last_decision.betOn = outcome
                  THEN e.net_profit + last_decision.stake * PayoutWin
                  ELSE IF outcome = "T" THEN e.net_profit
                  ELSE e.net_profit - last_decision.stake * PayoutUnit
             ELSE e.net_profit

\* settlement of the pending decision against the outcome, lines 100-108
Settle(e, outcome) ==
    IF e.current_decision_log = <<>> THEN e.net_profit
    ELSE LET last_decision == e.current_decision_log[1].decision
         IN  IF last_decision.stake > 0
             THEN IF last_decision.betOn = outcome
                  THEN e.net_profit + last_decision.stake * PayoutWin
                  ELSE e.net_profit - last_decision.stake * PayoutUnit
             ELSE e.net_profit

\* StopChecks that recomputes the flag every round and lifts the stop-loss
\* while the streak signal fires
StopChecksFollowingSignal(e) ==
    LET afterLoss ==
            IF e.net_profit <= e.current_stop_loss * PayoutUnit
               /\ ~getStreakSignal(e.recent_outcomes)
            THEN <<TRUE, StopNetProfit>>
            ELSE <<FALSE, "null">>
    IN  IF e.total_staked >= e.current_max_exposure
        THEN <<TRUE, StopMaxExposure>>
        ELSE afterLoss

\* StopChecks with the exposure test written > instead of >=
StopChecksStrictExposure(e) ==
    LET afterLoss ==
            IF e.net_profit <= e.current_stop_loss * PayoutUnit
            THEN <<TRUE, StopNetProfit>>
            ELSE <<e.betting_disabled, e.stop_reason>>
    IN  IF e.total_staked > e.current_max_exposure
        THEN <<TRUE, StopMaxExposure>>
        ELSE afterLoss

\* StopChecks without the stop-loss test: only the exposure stops the betting
StopChecksExposureOnly(e) ==
    IF e.total_staked >= e.current_max_exposure
    THEN <<TRUE, StopMaxExposure>>
    ELSE <<e.betting_disabled, e.stop_reason>>

\* the two stop checks, lines 137-144: <<betting_disabled, stop_reason>>
StopChecks(e) ==
    LET afterLoss ==
            IF e.net_profit <= e.current_stop_loss * PayoutUnit
            THEN <<TRUE, StopNetProfit>>
            ELSE <<e.betting_disabled, e.stop_reason>>
    IN  IF e.total_staked >= e.current_max_exposure
        THEN <<TRUE, StopMaxExposure>>
        ELSE afterLoss

\* Decide that also refuses to bet once the CUSUM detector has fired
DecideGatedByChangePoint(e, stake_unit, ensemble_agrees) ==
    IF e.round < warm_up_rounds
        THEN [betOn |-> "null", stake |-> 0, reason |-> "Warm-up period"]
    ELSE IF e.betting_disabled
        THEN [betOn |-> "null", stake |-> 0, reason |-> "STOP: " \o e.stop_reason]
    ELSE IF ~ensemble_agrees \/ e.change_point_detected
        THEN [betOn |-> "null", stake |-> 0, reason |-> "Ensemble models disagree"]
    ELSE IF stake_unit <= 0
        THEN [betOn |-> "null", stake |-> 0, reason |-> "Kelly stake is zero"]
    ELSE [betOn |-> "B", stake |-> stake_unit, reason |-> "Kelly"]

\* Decide with the warm-up test written <= instead of <
DecideWarmUpInclusive(e, stake_unit, ensemble_agrees) ==
    IF e.round <= warm_up_rounds
        THEN [betOn |-> "null", stake |-> 0, reason |-> "Warm-up period"]
    ELSE IF e.betting_disabled
        THEN [betOn |-> "null", stake |-> 0, reason |-> "STOP: " \o e.stop_reason]
    ELSE IF ~ensemble_agrees
        THEN [betOn |-> "null", stake |-> 0, reason |-> "Ensemble models disagree"]
    ELSE IF stake_unit <= 0
        THEN [betOn |-> "null", stake |-> 0, reason |-> "Kelly stake is zero"]
    ELSE [betOn |-> "B", stake |-> stake_unit, reason |-> "Kelly"]

\* Decide with the ensemble rule tried before the stop rule
DecideEnsembleBeforeStop(e, stake_unit, ensemble_agrees) ==
    IF e.round < warm_up_rounds
        THEN [betOn |-> "null", stake |-> 0, reason |-> "Warm-up period"]
    ELSE IF ~ensemble_agrees
        THEN [betOn |-> "null", stake |-> 0, reason |-> "Ensemble models disagree"]
    ELSE IF e.betting_disabled
        THEN [betOn |-> "null", stake |-> 0, reason |-> "STOP: " \o e.stop_reason]
    ELSE IF stake_unit <= 0
        THEN [betOn |-> "null", stake |-> 0, reason |-> "Kelly stake is zero"]
    ELSE [betOn |-> "B", stake |-> stake_unit, reason |-> "Kelly"]

\* the decision rule, lines 146-164
Decide(e, stake_unit, ensemble_agrees) ==
    IF e.round < warm_up_rounds
        THEN [betOn |-> "null", stake |-> 0, reason |-> "Warm-up period"]
    ELSE IF e.betting_disabled
        THEN [betOn |-> "null", stake |-> 0, reason |-> "STOP: " \o e.stop_reason]
    ELSE IF ~ensemble_agrees
        THEN [betOn |-> "null", stake |-> 0, reason |-> "Ensemble models disagree"]
    ELSE IF stake_unit <= 0
        THEN [betOn |-> "null", stake |-> 0, reason |-> "Kelly stake is zero"]
    ELSE [betOn |-> "B", stake |-> stake_unit, reason |-> "Kelly"]

\* Bookkeep that counts every accepted outcome as a Banker win
BookkeepCountsBanker(e, outcome) ==
    [e EXCEPT !.round = @ + 1,
              !.recent_outcomes = Append(@, outcome),
              !.net_profit = Settle(e, outcome),
              !.counts["B"] = @ + 1]

\* round, history, settlement and count of an accepted outcome, lines 98-109
Bookkeep(e, outcome) ==
    [e EXCEPT !.round = @ + 1,
              !.recent_outcomes = Append(@, outcome),
              !.net_profit = Settle(e, outcome),
              !.counts[outcome] = @ + 1]

\* regularizedIncompleteBeta(p_b_star, ...) returns NaN for x < 0 or x > 1
\* (src/performance.js:219): that is p_b_star = (B + P) / (1.95 * total) outside
\* [0, 1], decided on the shrunk counts without dividing
PBStarOutOfDomain(sh) ==
    LET total == sh.B + sh.P + sh.T
        s     == sh.B + sh.P
    IN  \/ total = 0
        \/ (total > 0 /\ (s < 0 \/ 100 * s > 195 * total))
        \/ (total < 0 /\ (s > 0 \/ 100 * s < 195 * total))

\* raw_confidence, lines 126-127, as the classes addOutcome tells apart: "0"
\* when the NaN of the beta function was replaced by 0, "raw" for the number
\* the continued fraction yields otherwise
RawConfidence(sh) == IF PBStarOutOfDomain(sh) THEN "0" ELSE "raw"

\* getCalibratedConfidence(adjusted_confidence) as the classes the log tells
\* apart, lines 130-131 and 199-210: 0 stays 0 (0 * penalty = 0 lies under
\* every bucket), any other number is the calibrated one
CalibratedClass(raw_confidence) ==
    IF raw_confidence = "0" THEN "0" ELSE "calibrated"

\* config.calibration_map, lines 52-54: bucket -> calibrated, in hundredths
calibration_map ==
    (70 :> 68) @@ (75 :> 71) @@ (80 :> 75) @@ (85 :> 80) @@ (90 :> 86) @@ (95 :> 92)

\* Object.keys(map).sort((a, b) => parseFloat(a) - parseFloat(b)), line 200
RECURSIVE SortedKeys(_)
SortedKeys(S) ==
    IF S = {} THEN <<>>
    ELSE LET least == CHOOSE x \in S : \A y \in S : x <= y
         IN  <<least>> \o SortedKeys(S \ {least})

\* the for loop of lines 202-208 over the buckets left; confidence and the
\* value returned are fractions [num, den]
RECURSIVE CalibrateLoop(_, _, _)
CalibrateLoop(confidence, buckets, calibrated) ==
    IF buckets = <<>> THEN calibrated
    ELSE IF confidence.num * 100 >= Head(buckets) * confidence.den
         THEN CalibrateLoop(confidence, Tail(buckets),
                            [num |-> calibration_map[Head(buckets)], den |-> 100])
         ELSE calibrated

\* getCalibratedConfidence(confidence), lines 199-210
getCalibratedConfidence(confidence) ==
    CalibrateLoop(confidence, SortedKeys(DOMAIN calibration_map), confidence)

\* final_confidence, line 134
FinalConfidence(sh) ==
    IF EdgeNum(sh) > 0 THEN CalibratedClass(RawConfidence(sh)) ELSE "0"

\* Accept with the two stop checks run after the decision of the round
AcceptDecidesBeforeStop(e, outcome) ==
    LET e1 == Bookkeep(e, outcome)
        sh == ShrunkCounts(e1.counts)
        p_b_star == PBStar(sh)
        e2 == updateLegacySystems(e1, outcome, p_b_star)
        ensemble_agrees == getEnsembleSignal(e2.recent_outcomes)
        stake_unit == getStakeUnitKelly(sh)
        decision == Decide(e2, stake_unit, ensemble_agrees)
        stop == StopChecks(e2)
        e3 == [e2 EXCEPT !.betting_disabled = stop[1], !.stop_reason = stop[2]]
        e4 == [e3 EXCEPT !.total_staked = @ + decision.stake]
        log == [ round      |-> e4.round,
                 outcome    |-> outcome,
                 counts     |-> e4.counts,
                 p_b_star   |-> p_b_star,
                 confidence |-> FinalConfidence(sh),
                 net_profit |-> e4.net_profit,
                 decision   |-> decision,
                 analysis   |-> [ raw_confidence        |-> RawConfidence(sh),
                                  ev_positive           |-> EdgeNum(sh) > 0,
                                  ensemble_agrees       |-> ensemble_agrees,
                                  change_point_detected |-> e4.change_point_detected,
                                  cusum_sum             |-> e4.cusum_sum,
                                  total_staked          |-> e4.total_staked ] ]
    IN  [e4 EXCEPT !.current_decision_log = <<log>>]

\* addOutcome for a recognized outcome, lines 98-185
Accept(e, outcome) ==
    LET e1 == Bookkeep(e, outcome)
        sh == ShrunkCounts(e1.counts)
        p_b_star == PBStar(sh)
        e2 == updateLegacySystems(e1, outcome, p_b_star)
        ensemble_agrees == getEnsembleSignal(e2.recent_outcomes)
        stop == StopChecks(e2)
        e3 == [e2 EXCEPT !.betting_disabled = stop[1], !.stop_reason = stop[2]]
        stake_unit == getStakeUnitKelly(sh)
        decision == Decide(e3, stake_unit, ensemble_agrees)
        e4 == [e3 EXCEPT !.total_staked = @ + decision.stake]
        log == [ round      |-> e4.round,
                 outcome    |-> outcome,
                 counts     |-> e4.counts,
                 p_b_star   |-> p_b_star,
                 confidence |-> FinalConfidence(sh),
                 net_profit |-> e4.net_profit,
                 decision   |-> decision,
                 analysis   |-> [ raw_confidence        |-> RawConfidence(sh),
                                  ev_positive           |-> EdgeNum(sh) > 0,
                                  ensemble_agrees       |-> ensemble_agrees,
                                  change_point_detected |-> e4.change_point_detected,
                                  cusum_sum             |-> e4.cusum_sum,
                                  total_staked          |-> e4.total_staked ] ]
    IN  [e4 EXCEPT !.current_decision_log = <<log>>]

\* addOutcome for a recognized outcome on an engine constructed with the
\* option ensemble_mode, lines 98-185 (line 135 reads config.ensemble_mode)
AcceptOf(ensemble_mode, e, outcome) ==
    LET e1 == Bookkeep(e, outcome)
        sh == ShrunkCounts(e1.counts)
        p_b_star == PBStar(sh)
        e2 == updateLegacySystems(e1, outcome, p_b_star)
        ensemble_agrees == getEnsembleSignalOf(ensemble_mode, e2.recent_outcomes)
        stop == StopChecks(e2)
        e3 == [e2 EXCEPT !.betting_disabled = stop[1], !.stop_reason = stop[2]]
        stake_unit == getStakeUnitKelly(sh)
        decision == Decide(e3, stake_unit, ensemble_agrees)
        e4 == [e3 EXCEPT !.total_staked = @ + decision.stake]
        log == [ round      |-> e4.round,
                 outcome    |-> outcome,
                 counts     |-> e4.counts,
                 p_b_star   |-> p_b_star,
                 confidence |-> FinalConfidence(sh),
                 net_profit |-> e4.net_profit,
                 decision   |-> decision,
                 analysis   |-> [ raw_confidence        |-> RawConfidence(sh),
                                  ev_positive           |-> EdgeNum(sh) > 0,
                                  ensemble_agrees       |-> ensemble_agrees,
                                  change_point_detected |-> e4.change_point_detected,
                                  cusum_sum             |-> e4.cusum_sum,
                                  total_staked          |-> e4.total_staked ] ]
    IN  [e4 EXCEPT !.current_decision_log = <<log>>]

\* addOutcome(outcome) on such an engine: <<engine after the call, return value>>
addOutcomeOf(ensemble_mode, e, outcome) ==
    IF outcome \notin Outcomes THEN <<e, <<>>>>
    ELSE LET e5 == AcceptOf(ensemble_mode, e, outcome) IN <<e5, e5.current_decision_log>>

\* addOutcome that forgets the pending decision on an unrecognized outcome
addOutcomeDropsPending(e, outcome) ==
    IF outcome \notin Outcomes THEN <<[e EXCEPT !.current_decision_log = <<>>], <<>>>>
    ELSE LET e5 == Accept(e, outcome) IN <<e5, e5.current_decision_log>>

\* addOutcome(outcome): <<engine after the call, return value>>
addOutcome(e, outcome) ==
    IF outcome \notin Outcomes THEN <<e, <<>>>>
    ELSE LET e5 == Accept(e, outcome) IN <<e5, e5.current_decision_log>>

(***************************************************************************)
(* BaccaratStrategy (confidence-index based, src/strategy.js): stakes by   *)
(* confidence tier, with the SPRT and CUSUM detectors kept for the log.    *)
(* Its warm-up, stop-loss, exposure and CUSUM defaults are the numbers of  *)
(* the Kelly engine except for the warm-up length.  The log fields         *)
(* strict_signal and p_b_credible_interval, floating-point values that are *)
(* returned and never stored, are left out of the modelled log.            *)
(***************************************************************************)
ci_warm_up_rounds == 10
adaptive_stop_loss == -5
sprt_epsilon == 100
\* Math.log((1 - beta) / alpha) and Math.log(beta / (1 - alpha)) for the default
\* alpha 0.05 and beta 0.10, in ten-thousandths
sprt_upper_boundary == 28904
sprt_lower_boundary == -22513

\* options.sprt.epsilon: the default and a coarse one, in ten-thousandths
SprtEpsilons == {sprt_epsilon, 20 * sprt_epsilon}

\* The confidence of line 102-107, 1 - regularizedIncompleteBeta(p_b_star, B,
\* P + T) with NaN replaced by 0 and the result clamped to [0, 1], as the tier
\* it falls in: 0 (below 0.80), 80, 85, 90 or 95 (percent, lower end of the
\* tier).  The first term of the continued fraction of
\* src/performance.js:218-258 divides by (a - 2) * (a - 1), so B = 1 and B = 2
\* yield NaN; for B >= 3 the clamped value is 0.95 or more except for the count
\* triples <<B, P, T>> listed below (evaluated for every triple of positive
\* counts with B + P + T <= 27).
ConfidenceBelow80 ==
    { <<5, 1, 1>>, <<5, 1, 2>>, <<5, 1, 3>>, <<5, 1, 4>>, <<5, 1, 5>>, <<5, 1, 6>>,
      <<5, 2, 1>>, <<5, 2, 2>>, <<5, 2, 3>>, <<5, 2, 4>>, <<5, 2, 5>>, <<5, 2, 6>>,
      <<5, 2, 7>>, <<6, 1, 1>>, <<6, 1, 2>>, <<6, 1, 3>>, <<6, 1, 4>>, <<6, 2, 1>>,
      <<6, 2, 2>>, <<6, 2, 3>>, <<6, 3, 1>>, <<6, 3, 2>>, <<6, 3, 3>>, <<7, 1, 1>>,
      <<7, 1, 2>>, <<7, 1, 3>>, <<7, 2, 1>>, <<7, 2, 2>>, <<7, 3, 1>>, <<7, 3, 2>>,
      <<7, 4, 1>>, <<7, 5, 1>>, <<7, 5, 2>>, <<8, 1, 1>>, <<8, 1, 2>>, <<8, 2, 1>>,
      <<8, 3, 1>>, <<9, 1, 1>>, <<9, 2, 1>>, <<10, 1, 1>>, <<11, 1, 1>> }
Confidence80To85 == { <<6, 2, 4>>, <<6, 3, 4>> }
Confidence85To90 == { <<5, 1, 7>>, <<5, 2, 8>>, <<7, 4, 2>>, <<8, 2, 2>>, <<9, 1, 2>> }
Confidence90To95 ==
    { <<5, 2, 9>>, <<6, 1, 5>>, <<6, 2, 5>>, <<6, 3, 5>>, <<7, 2, 3>>, <<7, 3, 3>>,
      <<7, 5, 3>>, <<8, 1, 3>>, <<8, 4, 1>>, <<9, 3, 1>>, <<10, 2, 1>>, <<12, 1, 1>> }

Confidence(counts) ==
    LET t == <<counts.B, counts.P, counts.T>>
    IN  IF counts.B <= 2 \/ t \in ConfidenceBelow80 THEN 0
        ELSE IF t \in Confidence80To85 THEN 80
        ELSE IF t \in Confidence85To90 THEN 85
        ELSE IF t \in Confidence90To95 THEN 90
        ELSE 95

\* getStakeUnit(confidence), confidence in percent
getStakeUnit(confidence) ==
    IF confidence >= 95 THEN 4
    ELSE IF confidence >= 90 THEN 2
    ELSE IF confidence >= 80 THEN 1
    ELSE 0

\* Math.log(n / d) in ten-thousandths, by the series 2 * artanh((n - d) / (n + d))
LogRatio(n, d) ==
    LET z  == RoundDiv((n - d) * 10000, n + d)
        z2 == RoundDiv(z * z, 10000)
        z3 == RoundDiv(z * z2, 10000)
        z5 == RoundDiv(z3 * z2, 10000)
        z7 == RoundDiv(z5 * z2, 10000)
    IN  2 * z + RoundDiv(2 * z3, 3) + RoundDiv(2 * z5, 5) + RoundDiv(2 * z7, 7)

\* resetShoe(prior) on an instance e: config and current_decision are kept
ciResetShoe(e, prior) ==
    [ initial_prior                     |-> e.initial_prior,
      epsilon                           |-> e.epsilon,
      current_decision                  |-> e.current_decision,
      counts                            |-> prior,
      round                             |-> 0,
      net_profit                        |-> 0,
      total_staked                      |-> 0,
      consecutive_low_confidence_rounds |-> 0,
      consecutive_high_confidence_rounds |-> 0,
      betting_disabled                  |-> FALSE,
      stop_reason                       |-> "null",
      current_max_exposure              |-> max_exposure,
      current_stop_loss                 |-> net_profit_stop_loss_units,
      betting_disabled_cusum            |-> FALSE,
      betting_disabled_sprt             |-> FALSE,
      sprt_state                        |-> [ log_lr         |-> 0,
                                              upper_boundary |-> sprt_upper_boundary,
                                              lower_boundary |-> sprt_lower_boundary,
                                              decision       |-> "inconclusive" ],
      cusum_sum                         |-> 0 ]

\* new BaccaratStrategy({ initial_prior: prior, sprt: { ..., epsilon } })
NewCiStrategy(prior, epsilon) ==
    ciResetShoe([initial_prior |-> prior, epsilon |-> epsilon, current_decision |-> <<>>],
                prior)

\* the CUSUM half of updateLegacySystems, lines 195-201
ciUpdateCusum(e, outcome, p_b_star) ==
    LET x_t == IF outcome = "B" THEN 10000 ELSE 0
        sum == Max(0, e.cusum_sum + (x_t - (p_b_star + cusum_drift)))
    IN  IF e.betting_disabled_cusum THEN e
        ELSE [e EXCEPT !.cusum_sum = sum,
                       !.betting_disabled_cusum = (sum > cusum_threshold)]

\* the SPRT half with the test of a decision already taken left out
ciUpdateSprtRestarting(e, outcome, p_b_star) ==
    LET p0 == p_b_star
        p1 == p_b_star + e.epsilon
        log_lr == e.sprt_state.log_lr +
                      (IF outcome = "B" THEN LogRatio(p1, p0)
                       ELSE LogRatio(10000 - p1, 10000 - p0))
    IN  IF p1 < 10000
        THEN IF log_lr >= e.sprt_state.upper_boundary
                 THEN [e EXCEPT !.sprt_state.log_lr = log_lr,
                                !.sprt_state.decision = "accept_h1"]
             ELSE IF log_lr <= e.sprt_state.lower_boundary
                 THEN [e EXCEPT !.sprt_state.log_lr = log_lr,
                                !.sprt_state.decision = "accept_h0",
                                !.betting_disabled_sprt = TRUE]
             ELSE [e EXCEPT !.sprt_state.log_lr = log_lr,
                            !.sprt_state.decision = "inconclusive"]
        ELSE [e EXCEPT !.betting_disabled_sprt = TRUE]

\* the SPRT half of updateLegacySystems, lines 203-221
ciUpdateSprt(e, outcome, p_b_star) ==
    LET p0 == p_b_star
        p1 == p_b_star + e.epsilon
        log_lr == e.sprt_state.log_lr +
                      (IF outcome = "B" THEN LogRatio(p1, p0)
                       ELSE LogRatio(10000 - p1, 10000 - p0))
    IN  IF e.sprt_state.decision # "inconclusive" THEN e
        ELSE IF p1 < 10000
        THEN IF log_lr >= e.sprt_state.upper_boundary
                 THEN [e EXCEPT !.sprt_state.log_lr = log_lr,
                                !.sprt_state.decision = "accept_h1"]
             ELSE IF log_lr <= e.sprt_state.lower_boundary
                 THEN [e EXCEPT !.sprt_state.log_lr = log_lr,
                                !.sprt_state.decision = "accept_h0",
                                !.betting_disabled_sprt = TRUE]
             ELSE [e EXCEPT !.sprt_state.log_lr = log_lr]
        ELSE [e EXCEPT !.betting_disabled_sprt = TRUE]

ciUpdateLegacySystems(e, outcome, p_b_star) ==
    ciUpdateSprt(ciUpdateCusum(e, outcome, p_b_star), outcome, p_b_star)

\* settlement against current_decision, lines 87-94
ciSettle(e, outcome) ==
    IF e.current_decision = <<>> THEN e.net_profit
    ELSE LET last_decision == e.current_decision[1]
         IN  IF last_decision.stake > 0
             THEN IF last_decision.betOn = outcome
                  THEN e.net_profit + last_decision.stake * PayoutWin
                  ELSE e.net_profit - last_decision.stake * PayoutUnit
             ELSE e.net_profit

\* adaptive stop-loss and tiered exposure, lines 111-125
ciAdapt(e, confidence) ==
    LET high == IF confidence >= 85 THEN e.consecutive_high_confidence_rounds + 1 ELSE 0
    IN  [e EXCEPT !.consecutive_high_confidence_rounds = high,
                  !.current_stop_loss = IF high >= 3 THEN adaptive_stop_loss ELSE @,
                  !.current_max_exposure =
                      IF e.net_profit >= 8 * PayoutUnit THEN 15
                      ELSE IF e.net_profit >= 5 * PayoutUnit THEN 12
                      ELSE @]

\* `Net profit reached ${current_stop_loss} units`
ciStopNetProfit(stop_loss) ==
    IF stop_loss = adaptive_stop_loss THEN "Net profit reached -5 units" ELSE StopNetProfit

\* the stop-loss checks, lines 128-135
ciStopChecks(e) ==
    LET low == IF e.consecutive_low_confidence_rounds >= 5
               THEN [e EXCEPT !.betting_disabled = TRUE,
                              !.stop_reason = "Confidence < 60% for 5 rounds"]
               ELSE e
    IN  IF low.net_profit <= low.current_stop_loss * PayoutUnit
        THEN [low EXCEPT !.betting_disabled = TRUE,
                         !.stop_reason = ciStopNetProfit(low.current_stop_loss)]
        ELSE low

\* `Max exposure of ${current_max_exposure} units reached`
ciMaxExposureReached(n) ==
    IF n = 15 THEN "Max exposure of 15 units reached"
    ELSE IF n = 12 THEN "Max exposure of 12 units reached"
    ELSE StopMaxExposure

\* the decision rule, lines 138-154
ciDecide(e, stake_unit) ==
    IF e.round < ci_warm_up_rounds
        THEN [betOn |-> "null", stake |-> 0, reason |-> "Warm-up period"]
    ELSE IF e.betting_disabled
        THEN [betOn |-> "null", stake |-> 0, reason |-> "ADAPTIVE STOP: " \o e.stop_reason]
    ELSE IF e.total_staked >= e.current_max_exposure
        THEN [betOn |-> "null", stake |-> 0,
              reason |-> ciMaxExposureReached(e.current_max_exposure)]
    ELSE IF stake_unit > 0
        THEN [betOn |-> "B", stake |-> stake_unit, reason |-> "Confidence"]
    ELSE [betOn |-> "null", stake |-> 0, reason |-> "Confidence too low"]

\* addOutcome for a recognized outcome, lines 86-184: <<engine, log>>
ciAccept(e, outcome) ==
    LET e1 == [e EXCEPT !.round = @ + 1,
                        !.net_profit = ciSettle(e, outcome),
                        !.counts[outcome] = @ + 1]
        p_b_star == PBStar(e1.counts)
        confidence == Confidence(e1.counts)
        e2 == ciStopChecks(ciAdapt(e1, confidence))
        decision == ciDecide(e2, getStakeUnit(confidence))
        e3 == [e2 EXCEPT !.total_staked = @ + decision.stake,
                         !.current_decision = <<decision>>]
        e4 == ciUpdateLegacySystems(e3, outcome, p_b_star)
        log == [ round      |-> e4.round,
                 outcome    |-> outcome,
                 counts     |-> e4.counts,
                 p_b_star   |-> p_b_star,
                 confidence |-> confidence,
                 net_profit |-> e4.net_profit,
                 decision   |-> decision,
                 analysis   |-> [ sprt_state   |-> e4.sprt_state,
                                  cusum_sum    |-> e4.cusum_sum,
                                  total_staked |-> e4.total_staked,
                                  betting_disabled_reasons |->
                                      IF e4.stop_reason = "null" THEN <<>>
                                      ELSE <<e4.stop_reason>> ] ]
    IN  <<e4, <<log>>>>

\* addOutcome(outcome): <<engine after the call, return value>>
ciAddOutcome(e, outcome) ==
    IF outcome \notin Outcomes THEN <<e, <<>>>> ELSE ciAccept(e, outcome)

(***************************************************************************)
(* PerformanceTracker (src/performance.js, the class processBaccaratData   *)
(* reads bet_history of)                                                   *)
(***************************************************************************)
NewTracker ==
    [ outcomes_observed |-> 0,
      net_profit_units  |-> 0,
      bet_history       |-> <<>>,
      relaxed_metrics   |-> [bets_made |-> 0, units_staked |-> 0, wins |-> 0, losses |-> 0] ]

\* recordDecision that counts a round only when it carried a bet
recordDecisionBetsOnly(t, log, actualOutcome) ==
    LET decision == log.decision
        win == decision.betOn = actualOutcome
    IN  IF decision.stake > 0
        THEN [t EXCEPT
                !.outcomes_observed = @ + 1,
                !.net_profit_units =
                    IF win THEN @ + decision.stake * PayoutWin
                    ELSE @ - decision.stake * PayoutUnit,
                !.relaxed_metrics.bets_made = @ + 1,
                !.relaxed_metrics.units_staked = @ + decision.stake,
                !.relaxed_metrics.wins = IF win THEN @ + 1 ELSE @,
                !.relaxed_metrics.losses = IF win THEN @ ELSE @ + 1,
                !.bet_history = Append(@, [ round   |-> log.round,
                                            betOn   |-> decision.betOn,
                                            stake   |-> decision.stake,
                                            outcome |-> actualOutcome,
                                            result  |-> IF win THEN "WIN" ELSE "LOSE" ])]
        ELSE t

\* recordDecision of the first class, lines 36-64
recordDecision(t, log, actualOutcome) ==
    LET decision == log.decision
        win == decision.betOn = actualOutcome
        t1 == [t EXCEPT !.outcomes_observed = @ + 1]
    IN  IF decision.stake > 0
        THEN [t1 EXCEPT
                !.net_profit_units =
                    IF win THEN @ + decision.stake * PayoutWin
                    ELSE @ - decision.stake * PayoutUnit,
                !.relaxed_metrics.bets_made = @ + 1,
                !.relaxed_metrics.units_staked = @ + decision.stake,
                !.relaxed_metrics.wins = IF win THEN @ + 1 ELSE @,
                !.relaxed_metrics.losses = IF win THEN @ ELSE @ + 1,
                !.bet_history = Append(@, [ round   |-> log.round,
                                            betOn   |-> decision.betOn,
                                            stake   |-> decision.stake,
                                            outcome |-> actualOutcome,
                                            result  |-> IF win THEN "WIN" ELSE "LOSE" ])]
        ELSE t1

\* the dual-mode PerformanceTracker (second class of performance.js) after
\* reset(), lines 84-104
NewDualTracker ==
    [ outcomes_observed |-> 0,
      net_profit_units  |-> 0,
      relaxed_metrics   |-> [bets_made |-> 0, units_staked |-> 0, wins |-> 0, losses |-> 0],
      strict_metrics    |-> [signals_fired |-> 0, wins |-> 0, losses |-> 0,
                             missed_wins |-> 0, avoided_losses |-> 0] ]

\* its recordDecision, lines 112-148
recordDecisionDual(t, log, actualOutcome) ==
    LET decision == log.decision
        win == decision.betOn = actualOutcome
        t1 == [t EXCEPT !.outcomes_observed = @ + 1]
        t2 == IF decision.stake > 0
              THEN [t1 EXCEPT
                      !.net_profit_units =
                          IF win THEN @ + decision.stake * PayoutWin
                          ELSE @ - decision.stake * PayoutUnit,
                      !.relaxed_metrics.bets_made = @ + 1,
                      !.relaxed_metrics.units_staked = @ + decision.stake,
                      !.relaxed_metrics.wins = IF win THEN @ + 1 ELSE @,
                      !.relaxed_metrics.losses = IF win THEN @ ELSE @ + 1]
              ELSE t1
    IN  IF log.analysis.strict_signal
        THEN [t2 EXCEPT
                !.strict_metrics.signals_fired = @ + 1,
                !.strict_metrics.wins = IF actualOutcome = "B" THEN @ + 1 ELSE @,
                !.strict_metrics.losses = IF actualOutcome = "B" THEN @ ELSE @ + 1]
        ELSE [t2 EXCEPT
                !.strict_metrics.missed_wins = IF actualOutcome = "B" THEN @ + 1 ELSE @,
                !.strict_metrics.avoided_losses = IF actualOutcome = "B" THEN @ ELSE @ + 1]

(***************************************************************************)
(* The special functions of src/performance.js (statistics.js part).       *)
(* A double is [nan, v]: NaN, or the number v millionths; a comparison     *)
(* with NaN is false.  alpha is 1 or 2, beta a small positive integer.     *)
(***************************************************************************)
One == 1000000
NaN == [nan |-> TRUE, v |-> 0]
Num(v) == [nan |-> FALSE, v |-> v]

\* the loop of lines 232-255 for 0 < x < 1.  Its first coefficient (i = 1,
\* m = 0) is -((a - 1) * (a + b - 1) * x) / ((a - 2) * (a - 1)): 0 / 0 for
\* a = 1 and -Infinity for a = 2; then d = 1 + d_m * 0 is NaN, every later
\* d, delta and f are NaN, and front * (1 / f) is NaN
ContinuedFraction(a, b) ==
    CASE (a - 2) * (a - 1) = 0 -> NaN

\* regularizedIncompleteBeta, lines 218-258
regularizedIncompleteBeta(x, a, b) ==
    IF x.nan THEN NaN
    ELSE IF x.v < 0 \/ x.v > One THEN NaN
    ELSE IF x.v = 0 THEN Num(0)
    ELSE IF x.v = One THEN Num(One)
    ELSE ContinuedFraction(a, b)

\* the search of lines 300-344 for a p that is NaN or inside (0, 1).  Each
\* fx = regularizedIncompleteBeta(x, a, b) - p is NaN, so the Newton loop
\* neither leaves (0, 1) nor converges in its 20 rounds; in the bisection
\* `regularizedIncompleteBeta(mid, a, b) < p` is false every time, so high is
\* halved until high - low < 1e-10 (34 times) and (low + high) / 2 = 2^-35
\* is returned, which is 0 to the millionth
RootSearch(p, a, b) ==
    IF regularizedIncompleteBeta(Num(One \div 2), a, b).nan THEN Num(0) ELSE NaN

\* betaCdfInv, lines 296-345
betaCdfInv(p, a, b) ==
    IF ~p.nan /\ p.v <= 0 THEN Num(0)
    ELSE IF ~p.nan /\ p.v >= One THEN Num(One)
    ELSE RootSearch(p, a, b)

(***************************************************************************)
(* The native-messaging receiver of the desktop app (src/unnamed/part_000) *)
(* A byte is a number; a payload is made of the bytes '1' and 'x'.         *)
(***************************************************************************)
Digit == 49
Letter == 120

\* lengthBuffer.writeUInt32LE(n, 0), lines 70-71
writeUInt32LE(n) ==
    <<n % 256, (n \div 256) % 256, (n \div 65536) % 256, (n \div 16777216) % 256>>

\* the bytes sendToChrome-style framing puts on the wire for a payload
FrameBytes(payload) == writeUInt32LE(Len(payload)) \o payload

\* messageBuffer.readUInt32LE(0), line 121
readUInt32LE(buffer) ==
    buffer[1] + 256 * buffer[2] + 65536 * buffer[3] + 16777216 * buffer[4]

\* JSON.parse(messageContent.toString()) succeeds: of the texts made of '1'
\* and 'x' exactly the non-empty runs of '1' are JSON (a number)
Parses(messageContent) ==
    /\ messageContent # <<>>
    /\ \A i \in 1..Len(messageContent) : messageContent[i] = Digit

\* the value JSON.parse returns for a run of '1'
RECURSIVE ParsedValue(_)
ParsedValue(messageContent) ==
    IF messageContent = <<>> THEN 0
    ELSE 10 * ParsedValue(SubSeq(messageContent, 1, Len(messageContent) - 1)) + 1

\* one round of the while loop, lines 115-146, on a buffer holding a whole
\* frame: <<buffer after the round, messages sent to the renderer so far>>
DrainStep(buffer, out, window) ==
    LET totalLength == 4 + readUInt32LE(buffer)
        messageContent == SubSeq(buffer, 5, totalLength)
    IN  << SubSeq(buffer, totalLength + 1, Len(buffer)),
           IF Parses(messageContent) /\ window = "open"
           THEN Append(out, ParsedValue(messageContent))
           ELSE out >>

\* the buffer holds a whole frame: neither break of lines 118 and 128 is taken
HoldsFrame(buffer) == Len(buffer) >= 4 /\ Len(buffer) >= 4 + readUInt32LE(buffer)

\* a handler that takes at most one frame out of the buffer per chunk
DrainOnce(buffer, out, window) ==
    IF HoldsFrame(buffer) THEN DrainStep(buffer, out, window) ELSE <<buffer, out>>

\* the while loop, lines 115-146
RECURSIVE Drain(_, _, _)
Drain(buffer, out, window) ==
    IF ~HoldsFrame(buffer) THEN <<buffer, out>>
    ELSE CHOOSE r \in { Drain(step[1], step[2], window) :
                            step \in {DrainStep(buffer, out, window)} } : TRUE

(***************************************************************************)
(* Session manager (src/unnamed/part_002)                                  *)
(***************************************************************************)
Streams == {"bac1", "bac2"}
\* the stream the upstream of the session manager plays on
Played == {"bac1"}

\* raw records of a results list
recR == [null |-> FALSE, ties |-> FALSE, c |-> "R"]
recB == [null |-> FALSE, ties |-> FALSE, c |-> "B"]
recTie == [null |-> FALSE, ties |-> TRUE, c |-> "B"]
recBad == [null |-> FALSE, ties |-> FALSE, c |-> "X"]
recNull == [null |-> TRUE, ties |-> FALSE, c |-> "undefined"]

\* records that are plain strings: a property read on a string gives
\* undefined, and only the empty string is falsy
strPlayer == [null |-> FALSE, ties |-> FALSE, c |-> "undefined", str |-> "Player"]
strBanker == [null |-> FALSE, ties |-> FALSE, c |-> "undefined", str |-> "Banker"]
strTie == [null |-> FALSE, ties |-> FALSE, c |-> "undefined", str |-> "Tie"]
strEmpty == [null |-> TRUE, ties |-> FALSE, c |-> "undefined", str |-> ""]

\* the colour is tested before the tie flag
translateOutcomeColourFirst(resultObject) ==
    IF resultObject.null THEN "null"
    ELSE IF resultObject.c = "R" THEN "B"
    ELSE IF resultObject.c = "B" THEN "P"
    ELSE IF resultObject.ties THEN "T"
    ELSE "null"

\* translateOutcome: "null" stands for the null it returns
translateOutcome(resultObject) ==
    IF resultObject.null THEN "null"
    ELSE IF resultObject.ties THEN "T"
    ELSE IF resultObject.c = "R" THEN "B"
    ELSE IF resultObject.c = "B" THEN "P"
    ELSE "null"

\* slice(n - 1): the diff starts one record early
SliceFromOffByOne(s, n) == IF n - 1 >= Len(s) THEN <<>> ELSE SubSeq(s, Max(n - 1, 0) + 1, Len(s))

\* Array.prototype.slice(n)
SliceFrom(s, n) == IF n >= Len(s) THEN <<>> ELSE SubSeq(s, n + 1, Len(s))

\* ReplayStep that records the decision the outcome has just produced against
\* that same outcome
ReplayStepRecordsNewLog(acc, resultObject) ==
    LET outcome == translateOutcome(resultObject)
        res == addOutcome(acc.strategy, outcome)
    IN  IF outcome = "null" THEN acc
        ELSE [ strategy        |-> res[1],
               tracker         |-> IF res[2] # <<>>
                                   THEN recordDecision(acc.tracker, res[2][1], outcome)
                                   ELSE acc.tracker,
               lastDecisionLog |-> res[2] ]

\* one iteration of the for loop of processBaccaratData, lines 202-227, on
\* acc = [strategy, tracker, lastDecisionLog]
ReplayStep(acc, resultObject) ==
    LET outcome == translateOutcome(resultObject)
        res == addOutcome(acc.strategy, outcome)
    IN  IF outcome = "null" THEN acc
        ELSE [ strategy        |-> res[1],
               tracker         |-> IF acc.lastDecisionLog # <<>>
                                   THEN recordDecision(acc.tracker,
                                                       acc.lastDecisionLog[1], outcome)
                                   ELSE acc.tracker,
               lastDecisionLog |-> res[2] ]

\* the for loop, lines 202-228; each iteration works on the value the one
\* before it left
RECURSIVE ReplayLoop(_, _)
ReplayLoop(acc, newOutcomes) ==
    IF newOutcomes = <<>> THEN acc
    ELSE CHOOSE r \in { ReplayLoop(step, Tail(newOutcomes)) :
                            step \in {ReplayStep(acc, Head(newOutcomes))} } : TRUE

\* the new-shoe test with <= for the first comparison
IsNewShoeOrEqual(stateOpt, currentRoundTotal) ==
    \/ stateOpt = <<>>
    \/ (currentRoundTotal <= stateOpt[1].lastRound /\ currentRoundTotal < 5)

\* the new-shoe test of line 160
IsNewShoe(stateOpt, currentRoundTotal) ==
    \/ stateOpt = <<>>
    \/ (currentRoundTotal < stateOpt[1].lastRound /\ currentRoundTotal < 5)

\* lines 161-185: the prior stored for the stream when a tracked table starts a new shoe
FoldPrior(stateOpt, priorOpt) ==
    IF stateOpt # <<>> THEN <<stateOpt[1].strategy.counts>> ELSE priorOpt

\* lines 187-193: the state of a new shoe
NewState(priorOpt) ==
    [ strategy   |-> NewStrategy(IF priorOpt # <<>> THEN priorOpt[1] ELSE DefaultPrior),
      tracker    |-> NewTracker,
      lastRound  |-> 0,
      hasStopped |-> FALSE ]

\* the new state built before the ending counts are stored
StartShoeStalePrior(stateOpt, priorOpt) ==
    <<NewState(priorOpt), FoldPrior(stateOpt, priorOpt)>>

\* lines 160-194: <<state, prior>> after the new-shoe branch
StartShoe(stateOpt, priorOpt) ==
    LET prior1 == FoldPrior(stateOpt, priorOpt)
    IN  <<NewState(prior1), prior1>>

\* lines 232-243: the permanent-stop mark of the table
MarkStopped(state, lastDecisionLog) ==
    IF lastDecisionLog = <<>> \/ state.hasStopped THEN state.hasStopped
    ELSE lastDecisionLog[1].decision.reason \in
             {"STOP: " \o StopNetProfit, "STOP: " \o StopMaxExposure}

\* lines 230-243: lastRound and the stop mark once the loop has run
FinishReport(state, acc, results) ==
    [state EXCEPT !.strategy = acc.strategy,
                  !.tracker = acc.tracker,
                  !.lastRound = Len(results),
                  !.hasStopped = MarkStopped(state, acc.lastDecisionLog)]

\* lines 196-243 on the state in force
DiffAndReplay(state, results) ==
    IF SliceFrom(results, state.lastRound) = <<>> THEN state
    ELSE FinishReport(state,
                      ReplayLoop([ strategy        |-> state.strategy,
                                   tracker         |-> state.tracker,
                                   lastDecisionLog |-> state.strategy.current_decision_log ],
                                 SliceFrom(results, state.lastRound)),
                      results)

\* processBaccaratData that stores the counts of the engine as the prior of the
\* stream at the end of every report
processBaccaratDataStoresPrior(stateOpt, priorOpt, results) ==
    LET started == IF IsNewShoe(stateOpt, Len(results))
                   THEN StartShoe(stateOpt, priorOpt)
                   ELSE <<stateOpt[1], priorOpt>>
        state == DiffAndReplay(started[1], results)
    IN  <<<<state>>, <<state.strategy.counts>>>>

\* processBaccaratData(tableId, { results }): <<tableStates[tableId], globalPriors[tableId]>>
processBaccaratData(stateOpt, priorOpt, results) ==
    LET started == IF IsNewShoe(stateOpt, Len(results))
                   THEN StartShoe(stateOpt, priorOpt)
                   ELSE <<stateOpt[1], priorOpt>>
    IN  <<<<DiffAndReplay(started[1], results)>>, started[2]>>

(***************************************************************************)
(* The connection of the worker (src/unnamed/part_002, lines 33-109).      *)
(* c is the record of the connection globals and of their environment:     *)
(*   ws               0 for null, or the number of the WebSocket referred  *)
(*   config           the config is set (not null)                         *)
(*   reconnectTimeout the variable holds a timer that is still pending     *)
(*   heartbeatTimeout the same for the heartbeat timer                     *)
(*   lost_timers      pending setTimeout(connect) timers the variable no   *)
(*                    longer holds                                         *)
(*   lookups          chrome.cookies.get calls whose callback has not run  *)
(*   sockets          readyState of every WebSocket created, in order:     *)
(*                    "connecting", "open", "closing" (close() called, the *)
(*                    close event to come) or "closed"                     *)
(***************************************************************************)
\* reconnectTimeout = setTimeout(connect, ...): a timer the variable held and
\* that is still pending stays pending
setReconnectTimeout(c) ==
    [c EXCEPT !.lost_timers = IF c.reconnectTimeout THEN @ + 1 ELSE @,
              !.reconnectTimeout = TRUE]

\* ws.close() on socket k
close(c, k) ==
    IF c.sockets[k] \in {"connecting", "open"}
    THEN [c EXCEPT !.sockets[k] = "closing"]
    ELSE c

\* disconnect(), lines 33-44: with onclose removed the socket closes without
\* running a handler
disconnect(c) ==
    LET c1 == [c EXCEPT !.reconnectTimeout = FALSE, !.heartbeatTimeout = FALSE]
    IN  IF c1.ws # 0
        THEN [c1 EXCEPT !.sockets[c1.ws] = "closed", !.ws = 0]
        ELSE c1

\* resetHeartbeat(), lines 46-54
resetHeartbeat(c) == [c EXCEPT !.heartbeatTimeout = TRUE]

\* connect() up to the chrome.cookies.get call, lines 56-62
connect(c) ==
    IF c.ws # 0 THEN c
    ELSE LET c1 == [c EXCEPT !.reconnectTimeout = FALSE]
         IN  IF ~c1.config THEN c1
             ELSE [c1 EXCEPT !.lookups = @ + 1]

\* the callback of chrome.cookies.get, lines 62-108; with config null both
\* branches throw on reading config before they assign anything
cookieCallback(c, cookie) ==
    LET c1 == [c EXCEPT !.lookups = @ - 1]
    IN  IF ~c1.config THEN c1
        ELSE IF cookie
             THEN [c1 EXCEPT !.sockets = Append(@, "connecting"),
                             !.ws = Len(c1.sockets) + 1]
             ELSE setReconnectTimeout(c1)

\* ws.onclose of socket k, lines 90-96
onclose(c, k) ==
    LET c1 == [c EXCEPT !.sockets[k] = "closed",
                        !.heartbeatTimeout = FALSE,
                        !.ws = 0]
    IN  IF c1.config THEN setReconnectTimeout(c1) ELSE c1

\* the heartbeat timer fires, lines 48-53
heartbeat(c) ==
    LET c1 == [c EXCEPT !.heartbeatTimeout = FALSE]
    IN  IF c1.ws # 0 THEN close(c1, c1.ws) ELSE c1

(***************************************************************************)
(* logCalibrationData (src/unnamed/part_002, lines 140-150)                *)
(***************************************************************************)
\* the entries kept: "Keep only the last 1000 entries", line 145
KeptEntries == 1000

\* the callback of the get, lines 142-148: the list handed to storage.set
storageCallback(result, logEntry) ==
    LET data == Append(result, logEntry)
    IN  IF Len(data) > KeptEntries
        THEN SubSeq(data, Len(data) - KeptEntries + 1, Len(data))
        ELSE data

(***************************************************************************)
(* The stand-alone engine: construction, addOutcome and resetShoe calls    *)
(***************************************************************************)
\* no special function is being called
SpecialIdle ==
    /\ arg_x = Num(0)
    /\ arg_a = 1
    /\ arg_b = 1
    /\ beta_out = <<>>

\* getStakeUnitKelly is not being called
KellyIdle ==
    /\ p_win = 0
    /\ p_lose = 0
    /\ kelly_stake = <<>>

\* the two trackers as constructed
TrackersIdle ==
    /\ tracker = NewTracker
    /\ dual_tracker = NewDualTracker
    /\ calls = <<>>

\* the desktop app when it starts listening on stdin, lines 84-103
ReceiverIdle ==
    /\ sent = <<>>
    /\ wire = <<>>
    /\ messageBuffer = <<>>
    /\ forwarded = <<>>
    /\ mainWindow = "open"
    /\ closed_once = FALSE

\* getCalibratedConfidence is not being called
CalibrationIdle ==
    /\ cal_lo = 0
    /\ cal_hi = 0
    /\ cal_out = <<>>

\* the engine with ensemble_mode 'require_all' as constructed
RequireAllIdle ==
    /\ all_strategy = NewStrategy(DefaultPrior)
    /\ all_returned = <<>>

\* the worker as loaded, lines 4-7: no socket, no config, no timer
ConnectionIdle ==
    net = [ ws               |-> 0,
            config           |-> FALSE,
            reconnectTimeout |-> FALSE,
            heartbeatTimeout |-> FALSE,
            lost_timers      |-> 0,
            lookups          |-> 0,
            sockets          |-> <<>> ]

\* nothing logged yet and no calibrationData stored
CalibrationLogIdle ==
    /\ logged = <<>>
    /\ calibrationData = <<>>
    /\ storage_requests = <<>>
    /\ storage_results = <<>>

\* the components modelled on their own below, before any call or event
ExtraIdle == CalibrationIdle /\ RequireAllIdle /\ ConnectionIdle /\ CalibrationLogIdle

\* the stand-alone components before any call
FunctionsIdle == KellyIdle /\ TrackersIdle /\ SpecialIdle /\ ReceiverIdle /\ ExtraIdle

\* the worker before any message and any report
WorkerIdle ==
    /\ tableStates = [S \in Streams |-> <<>>]
    /\ globalPriors = [S \in Streams |-> <<>>]
    /\ reported = [S \in Streams |-> <<>>]
    /\ chain = [S \in Streams |-> TRUE]
    /\ lastOp = [type |-> "none", tableId |-> "none", kind |-> "none"]
    /\ latestMessage = <<>>
    /\ isProcessing = FALSE
    /\ pc = "idle"
    /\ messageToProcess = <<>>
    /\ remaining = <<>>
    /\ timer = FALSE
    /\ received = 0
    /\ processed = 0
    /\ solo = [S \in Streams |-> <<<<>>, <<>>>>]

\* the session manager before any report
ManagerIdle == WorkerIdle /\ FunctionsIdle

\* the stand-alone engine as constructed
EngineIdle ==
    /\ strategy = NewStrategy(DefaultPrior)
    /\ returned = <<>>
    /\ shoe_prior = DefaultPrior

\* the stand-alone engine of src/strategy.js as constructed
CiIdle ==
    /\ ci_strategy = NewCiStrategy(DefaultPrior, sprt_epsilon)
    /\ ci_returned = <<>>

Init ==
    /\ EngineIdle
    /\ CiIdle
    /\ ManagerIdle
    /\ feed = [S \in Streams |-> [shoe |-> 1, tape |-> 1, len |-> 0]]

\* number of maximal runs of equal outcomes in s
Runs(s) ==
    IF s = <<>> THEN 0
    ELSE 1 + Cardinality({i \in 1..(Len(s) - 1) : s[i] # s[i + 1]})

\* the outcome keeps the shoe within the bounds of the model
WithinBounds(e, outcome) ==
    /\ e.round < MaxRound
    /\ Runs(Append(e.recent_outcomes, outcome)) <= MaxRuns

AddOutcome(outcome) ==
    /\ outcome \in Outcomes => WithinBounds(strategy, outcome)
    /\ strategy' = addOutcome(strategy, outcome)[1]
    /\ returned' = addOutcome(strategy, outcome)[2]
    /\ UNCHANGED <<shoe_prior, mvars, civars, pvars, fvars>>

ResetShoe(prior) ==
    /\ strategy' = resetShoe(strategy.initial_prior, prior)
    /\ returned' = <<>>
    /\ shoe_prior' = prior
    /\ UNCHANGED <<mvars, civars, pvars, fvars>>

Next ==
    \/ \E outcome \in Inputs : AddOutcome(outcome)
    \/ \E prior \in Priors : ResetShoe(prior)

Spec == Init /\ [][Next]_vars

(***************************************************************************)
(* The stand-alone engine constructed with an initial_prior the caller     *)
(* supplies: the constructor takes options.initial_prior as it comes       *)
(* (line 47), negative pseudo-counts included                              *)
(***************************************************************************)
SuppliedPriors == {DefaultPrior, [B |-> 1, P |-> -9, T |-> 4]}

SuppliedPriorInit ==
    /\ \E prior \in SuppliedPriors :
          /\ strategy = NewStrategy(prior)
          /\ shoe_prior = prior
    /\ returned = <<>>
    /\ CiIdle
    /\ ManagerIdle
    /\ feed = [S \in Streams |-> [shoe |-> 1, tape |-> 1, len |-> 0]]

SuppliedPriorNext == \E outcome \in Inputs : AddOutcome(outcome)

SuppliedPriorSpec == SuppliedPriorInit /\ [][SuppliedPriorNext]_vars

(***************************************************************************)
(* The two BaccaratStrategy implementations side by side, constructed with *)
(* the same prior and handed the same addOutcome and resetShoe calls       *)
(***************************************************************************)
EnginesInit ==
    /\ EngineIdle
    /\ \E epsilon \in SprtEpsilons : ci_strategy = NewCiStrategy(DefaultPrior, epsilon)
    /\ ci_returned = <<>>
    /\ ManagerIdle
    /\ feed = [S \in Streams |-> [shoe |-> 1, tape |-> 1, len |-> 0]]

\* the outcome keeps the shoe within the bounds of the two-engine model
WithinBothBounds(e, outcome) ==
    /\ e.round < MaxBothRound
    /\ Runs(Append(e.recent_outcomes, outcome)) <= MaxBothRuns

AddOutcomeBoth(outcome) ==
    /\ outcome \in Outcomes => WithinBothBounds(strategy, outcome)
    /\ \E out \in {addOutcome(strategy, outcome)} :
           strategy' = out[1] /\ returned' = out[2]
    /\ \E out \in {ciAddOutcome(ci_strategy, outcome)} :
           ci_strategy' = out[1] /\ ci_returned' = out[2]
    /\ UNCHANGED <<shoe_prior, mvars, pvars, fvars>>

ResetShoeBoth(prior) ==
    /\ strategy' = resetShoe(strategy.initial_prior, prior)
    /\ returned' = <<>>
    /\ shoe_prior' = prior
    /\ ci_strategy' = ciResetShoe(ci_strategy, prior)
    /\ ci_returned' = <<>>
    /\ UNCHANGED <<mvars, pvars, fvars>>

EnginesNext ==
    \/ \E outcome \in Inputs : AddOutcomeBoth(outcome)
    \/ \E prior \in Priors : ResetShoeBoth(prior)

EnginesSpec == EnginesInit /\ [][EnginesNext]_vars

(***************************************************************************)
(* The session manager fed by an upstream that replays, per stream, the    *)
(* whole results list of the shoe in play                                  *)
(***************************************************************************)
\* the kinds of shoe the upstream plays
Tapes == {1, 2, 3}

\* the i-th record of a shoe of each kind
\*   1: Banker wins with one unrecognized record
\*   2: Player win, three Banker wins, tie, Banker win, repeated
\*   3: mostly records that classify to nothing or to Player/tie
\*   4: outcomes given as plain strings
TapeRecord(k, i) ==
    CASE k = 1 -> IF i = 5 THEN recBad ELSE recR
      [] k = 2 -> <<recB, recR, recR, recR, recTie, recR>>[((i - 1) % 6) + 1]
      [] k = 3 -> <<recNull, recB, recBad, recTie, recR>>[((i - 1) % 5) + 1]
      [] OTHER -> <<strBanker, strPlayer, strTie, strEmpty>>[((i - 1) % 4) + 1]

\* tableData.results as the upstream sends it now
Results(f) == [i \in 1..f.len |-> TapeRecord(f.tape, i)]

IsPrefix(s, t) == Len(s) <= Len(t) /\ SubSeq(t, 1, Len(s)) = s

\* how a report relates to the state it meets
ReportKind(stateOpt, results) ==
    IF stateOpt = <<>> THEN "first"
    ELSE IF IsNewShoe(stateOpt, Len(results)) THEN "boundary"
    ELSE IF Len(results) < stateOpt[1].lastRound THEN "shrunk"
    ELSE IF Len(results) = stateOpt[1].lastRound THEN "same"
    ELSE IF stateOpt[1].lastRound = 0 THEN "fill"
    ELSE "extend"

ManagerInit ==
    /\ EngineIdle
    /\ CiIdle
    /\ ManagerIdle
    /\ \E k \in Tapes : feed = [S \in Streams |-> [shoe |-> 1, tape |-> k, len |-> 0]]

\* the upstream observes one more round of the shoe
FeedAppend(S) ==
    /\ feed[S].len < MaxLen
    /\ feed' = [feed EXCEPT ![S].len = @ + 1]
    /\ lastOp' = [type |-> "feed", tableId |-> S, kind |-> "none"]
    /\ UNCHANGED <<tableStates, globalPriors, reported, chain, evars, civars, pvars, fvars>>

\* the upstream starts the next shoe, of the next kind
FeedRestart(S) ==
    /\ feed[S].shoe < MaxShoes
    /\ feed[S].len > 0
    /\ feed' = [feed EXCEPT ![S] = [ shoe |-> feed[S].shoe + 1,
                                     tape |-> (feed[S].tape % Cardinality(Tapes)) + 1,
                                     len  |-> 0 ]]
    /\ lastOp' = [type |-> "feed", tableId |-> S, kind |-> "none"]
    /\ UNCHANGED <<tableStates, globalPriors, reported, chain, evars, civars, pvars, fvars>>

\* a report for stream S is processed: processBaccaratData(S, { results })
Report(S) ==
    \E out \in {processBaccaratData(tableStates[S], globalPriors[S], Results(feed[S]))} :
        /\ tableStates' = [tableStates EXCEPT ![S] = out[1]]
        /\ globalPriors' = [globalPriors EXCEPT ![S] = out[2]]
        /\ reported' = [reported EXCEPT ![S] = Results(feed[S])]
        /\ chain' = [chain EXCEPT ![S] =
                        IF IsNewShoe(tableStates[S], feed[S].len) THEN TRUE
                        ELSE @ /\ IsPrefix(reported[S], Results(feed[S]))]
        /\ lastOp' = [type |-> "report", tableId |-> S,
                      kind |-> ReportKind(tableStates[S], Results(feed[S]))]
        /\ UNCHANGED <<feed, evars, civars, pvars, fvars>>

\* the DISCONNECT message: tableStates = {}
Disconnect ==
    /\ \E S \in Streams : tableStates[S] # <<>>
    /\ tableStates' = [S \in Streams |-> <<>>]
    /\ reported' = [S \in Streams |-> <<>>]
    /\ chain' = [S \in Streams |-> TRUE]
    /\ lastOp' = [type |-> "disconnect", tableId |-> "none", kind |-> "none"]
    /\ UNCHANGED <<feed, globalPriors, evars, civars, pvars, fvars>>

ManagerNext ==
    \/ \E S \in Played : FeedAppend(S)
    \/ \E S \in Played : FeedRestart(S)
    \/ \E S \in Played : Report(S)
    \/ Disconnect

ManagerSpec == ManagerInit /\ [][ManagerNext]_vars

\* the session manager behind an upstream whose first shoe gives its outcomes
\* as plain strings
StringTape == 4

TagInit ==
    /\ EngineIdle
    /\ CiIdle
    /\ ManagerIdle
    /\ feed = [S \in Streams |-> [shoe |-> 1, tape |-> StringTape, len |-> 0]]

TagSpec == TagInit /\ [][ManagerNext]_vars

(***************************************************************************)
(* getStakeUnitKelly called on its own with probabilities that are         *)
(* multiples of 1 / KellyGrid                                              *)
(***************************************************************************)
KellyGrid == 40

\* the arguments p_win = w / KellyGrid and p_lose = l / KellyGrid as shares of
\* a total of KellyGrid
KellyArgs(w, l) == [B |-> w, P |-> l, T |-> KellyGrid - w - l]

KellyCallInit ==
    /\ EngineIdle
    /\ CiIdle
    /\ WorkerIdle
    /\ feed = [S \in Streams |-> [shoe |-> 1, tape |-> 1, len |-> 0]]
    /\ \E w \in 0..KellyGrid : \E l \in 0..(KellyGrid - w) : p_win = w /\ p_lose = l
    /\ kelly_stake = <<>>
    /\ TrackersIdle
    /\ SpecialIdle
    /\ ReceiverIdle
    /\ ExtraIdle

\* the call returns
KellyCall ==
    /\ kelly_stake = <<>>
    /\ kelly_stake' = <<getStakeUnitKelly(KellyArgs(p_win, p_lose))>>
    /\ UNCHANGED <<p_win, p_lose, tvars, svars, rvars, evars, mvars, civars, pvars, xvars>>

KellyCallSpec == KellyCallInit /\ [][KellyCall]_vars

(***************************************************************************)
(* The two PerformanceTracker classes handed the same recordDecision calls *)
(***************************************************************************)
MaxCalls == 3

\* the decisions a log handed to recordDecision carries
TrackedDecisions ==
    { [betOn |-> "null", stake |-> 0, reason |-> "Warm-up period"],
      [betOn |-> "B", stake |-> 1, reason |-> "Confidence"],
      [betOn |-> "P", stake |-> 2, reason |-> "Confidence"] }

TrackerInit ==
    /\ EngineIdle
    /\ CiIdle
    /\ ManagerIdle
    /\ feed = [S \in Streams |-> [shoe |-> 1, tape |-> 1, len |-> 0]]

\* tracker.recordDecision(log, actualOutcome) on both instances
RecordDecision(decision, strict_signal, actualOutcome) ==
    /\ Len(calls) < MaxCalls
    /\ \E log \in {[ round    |-> Len(calls) + 1,
                      decision |-> decision,
                      analysis |-> [strict_signal |-> strict_signal] ]} :
           /\ tracker' = recordDecision(tracker, log, actualOutcome)
           /\ dual_tracker' = recordDecisionDual(dual_tracker, log, actualOutcome)
           /\ calls' = Append(calls, [log |-> log, actualOutcome |-> actualOutcome])
    /\ UNCHANGED <<kvars, svars, rvars, evars, mvars, civars, pvars, xvars>>

\* tracker.reset() on both instances
ResetTrackers ==
    /\ calls # <<>>
    /\ tracker' = NewTracker
    /\ dual_tracker' = NewDualTracker
    /\ calls' = <<>>
    /\ UNCHANGED <<kvars, svars, rvars, evars, mvars, civars, pvars, xvars>>

TrackerNext ==
    \/ \E decision \in TrackedDecisions, strict_signal \in BOOLEAN, actualOutcome \in Outcomes :
           RecordDecision(decision, strict_signal, actualOutcome)
    \/ ResetTrackers

TrackerSpec == TrackerInit /\ [][TrackerNext]_vars

(***************************************************************************)
(* getCalibratedConfidence called on its own, twice, with confidences that *)
(* are multiples of 1 / ConfGrid in [0, 1]                                 *)
(***************************************************************************)
ConfGrid == 100

CalibrationInit ==
    /\ EngineIdle
    /\ CiIdle
    /\ WorkerIdle
    /\ feed = [S \in Streams |-> [shoe |-> 1, tape |-> 1, len |-> 0]]
    /\ KellyIdle
    /\ TrackersIdle
    /\ SpecialIdle
    /\ ReceiverIdle
    /\ RequireAllIdle
    /\ ConnectionIdle
    /\ CalibrationLogIdle
    /\ cal_lo \in 0..ConfGrid
    /\ cal_hi \in 0..ConfGrid
    /\ cal_out = <<>>

\* both calls return
CalibrationCall ==
    /\ cal_out = <<>>
    /\ cal_out' = << getCalibratedConfidence([num |-> cal_lo, den |-> ConfGrid]),
                     getCalibratedConfidence([num |-> cal_hi, den |-> ConfGrid]) >>
    /\ UNCHANGED <<cal_lo, cal_hi, avars, nvars, lvars, ovars>>

CalibrationSpec == CalibrationInit /\ [][CalibrationCall]_vars

(***************************************************************************)
(* The Kelly engine constructed with { ensemble_mode: 'require_all' } and  *)
(* handed addOutcome and resetShoe calls                                   *)
(***************************************************************************)
MaxAllRound == 13
MaxAllRuns == 4

RequireAllInit ==
    /\ EngineIdle
    /\ CiIdle
    /\ ManagerIdle
    /\ feed = [S \in Streams |-> [shoe |-> 1, tape |-> 1, len |-> 0]]

\* the outcome keeps the shoe within the bounds of the model
WithinAllBounds(e, outcome) ==
    /\ e.round < MaxAllRound
    /\ Runs(Append(e.recent_outcomes, outcome)) <= MaxAllRuns

AddOutcomeAll(outcome) ==
    /\ outcome \in Outcomes => WithinAllBounds(all_strategy, outcome)
    /\ all_strategy' = addOutcomeOf("require_all", all_strategy, outcome)[1]
    /\ all_returned' = addOutcomeOf("require_all", all_strategy, outcome)[2]
    /\ UNCHANGED <<gvars, nvars, lvars, ovars>>

ResetShoeAll(prior) ==
    /\ all_strategy' = resetShoe(all_strategy.initial_prior, prior)
    /\ all_returned' = <<>>
    /\ UNCHANGED <<gvars, nvars, lvars, ovars>>

RequireAllNext ==
    \/ \E outcome \in Inputs : AddOutcomeAll(outcome)
    \/ \E prior \in Priors : ResetShoeAll(prior)

RequireAllSpec == RequireAllInit /\ [][RequireAllNext]_vars

(***************************************************************************)
(* The connection under CONNECT and DISCONNECT messages from the popup,    *)
(* cookie callbacks, socket events and the two kinds of timer              *)
(***************************************************************************)
MaxSockets == 3
MaxLookups == 2
MaxTimers == 2

ConnectionInit ==
    /\ EngineIdle
    /\ CiIdle
    /\ ManagerIdle
    /\ feed = [S \in Streams |-> [shoe |-> 1, tape |-> 1, len |-> 0]]

\* what a handler leaves is within the bounds of the model
WithinConnectionBounds(c) ==
    /\ c.lookups <= MaxLookups
    /\ c.lost_timers + (IF c.reconnectTimeout THEN 1 ELSE 0) <= MaxTimers
    /\ Len(c.sockets) <= MaxSockets

\* the handler leaves c as the connection state
ConnectionStep(c) ==
    /\ WithinConnectionBounds(c)
    /\ net' = c
    /\ UNCHANGED <<gvars, avars, lvars, ovars>>

\* case "CONNECT" of the runtime.onMessage listener, line 357
ConnectMessage ==
    ConnectionStep(connect([(IF net.ws # 0 THEN disconnect(net) ELSE net)
                               EXCEPT !.config = TRUE]))

\* case "DISCONNECT", line 358
DisconnectMessage ==
    /\ WithinConnectionBounds(disconnect([net EXCEPT !.config = FALSE]))
    /\ net' = disconnect([net EXCEPT !.config = FALSE])
    /\ tableStates' = [S \in Streams |-> <<>>]
    /\ UNCHANGED <<feed, globalPriors, reported, chain, lastOp,
                   gvars, avars, lvars, evars, civars, pvars, kvars, tvars, svars, rvars>>

\* a cookie lookup completes, with the cookie or with null
CookieCallback(cookie) ==
    /\ net.lookups > 0
    /\ ConnectionStep(cookieCallback(net, cookie))

\* the connection of socket k is established: ws.onopen, lines 66-69
SocketOpen(k) ==
    /\ net.sockets[k] = "connecting"
    /\ ConnectionStep(resetHeartbeat([net EXCEPT !.sockets[k] = "open"]))

\* a frame that is not JSON arrives on socket k: ws.onmessage, lines 72-81
SocketMessage(k) ==
    /\ net.sockets[k] = "open"
    /\ ConnectionStep(resetHeartbeat(net))

\* socket k is closed, by the server, by a failure or by the close() of the
\* heartbeat: its close event runs ws.onclose
SocketClose(k) ==
    /\ net.sockets[k] \in {"connecting", "open", "closing"}
    /\ ConnectionStep(onclose(net, k))

\* the heartbeat timer fires
HeartbeatTimeout ==
    /\ net.heartbeatTimeout
    /\ ConnectionStep(heartbeat(net))

\* a setTimeout(connect, ...) timer fires: the one the variable holds or one
\* it has lost
ReconnectTimeout ==
    \/ /\ net.reconnectTimeout
       /\ ConnectionStep(connect([net EXCEPT !.reconnectTimeout = FALSE]))
    \/ /\ net.lost_timers > 0
       /\ ConnectionStep(connect([net EXCEPT !.lost_timers = @ - 1]))

ConnectionNext ==
    \/ ConnectMessage
    \/ DisconnectMessage
    \/ \E cookie \in BOOLEAN : CookieCallback(cookie)
    \/ \E k \in 1..MaxSockets : k <= Len(net.sockets) /\ SocketOpen(k)
    \/ \E k \in 1..MaxSockets : k <= Len(net.sockets) /\ SocketMessage(k)
    \/ \E k \in 1..MaxSockets : k <= Len(net.sockets) /\ SocketClose(k)
    \/ HeartbeatTimeout
    \/ ReconnectTimeout

ConnectionSpec == ConnectionInit /\ [][ConnectionNext]_vars

(***************************************************************************)
(* logCalibrationData called for one settled bet after the other; the      *)
(* storage serves the calls in the order they were made and the callbacks   *)
(* run in the order of their gets                                           *)
(***************************************************************************)
MaxLogged == 4

CalibrationLogInit ==
    /\ EngineIdle
    /\ CiIdle
    /\ ManagerIdle
    /\ feed = [S \in Streams |-> [shoe |-> 1, tape |-> 1, len |-> 0]]

\* logCalibrationData(logEntry), line 141: the get is issued; the entry is
\* identified by its place in the logging order
LogCalibrationData ==
    /\ Len(logged) < MaxLogged
    /\ logged' = Append(logged, Len(logged) + 1)
    /\ storage_requests' = Append(storage_requests,
                                  [op |-> "get", logEntry |-> Len(logged) + 1])
    /\ UNCHANGED <<calibrationData, storage_results, gvars, avars, nvars, ovars>>

\* the storage serves the oldest call: a get reads the list, a set replaces it
StorageServe ==
    /\ storage_requests # <<>>
    /\ storage_requests' = Tail(storage_requests)
    /\ IF Head(storage_requests).op = "get"
       THEN /\ storage_results' = Append(storage_results,
                       [ result   |-> calibrationData,
                         logEntry |-> Head(storage_requests).logEntry ])
            /\ UNCHANGED calibrationData
       ELSE /\ calibrationData' = Head(storage_requests).data
            /\ UNCHANGED storage_results
    /\ UNCHANGED <<logged, gvars, avars, nvars, ovars>>

\* the callback of the oldest served get runs, lines 141-149
StorageCallback ==
    /\ storage_results # <<>>
    /\ storage_results' = Tail(storage_results)
    /\ storage_requests' = Append(storage_requests,
           [ op   |-> "set",
             data |-> storageCallback(Head(storage_results).result,
                                      Head(storage_results).logEntry) ])
    /\ UNCHANGED <<logged, calibrationData, gvars, avars, nvars, ovars>>

CalibrationLogNext ==
    \/ LogCalibrationData
    \/ StorageServe
    \/ StorageCallback

CalibrationLogSpec == CalibrationLogInit /\ [][CalibrationLogNext]_vars

(***************************************************************************)
(* The special functions called on their own, with arguments inside and    *)
(* outside [0, 1] in steps of 1 / ArgGrid                                  *)
(***************************************************************************)
ArgGrid == 10
MaxBeta == 3

SpecialInit ==
    /\ EngineIdle
    /\ CiIdle
    /\ WorkerIdle
    /\ feed = [S \in Streams |-> [shoe |-> 1, tape |-> 1, len |-> 0]]
    /\ KellyIdle
    /\ TrackersIdle
    /\ ReceiverIdle
    /\ ExtraIdle
    /\ \E k \in (0 - ArgGrid)..(2 * ArgGrid) : arg_x = Num((k * One) \div ArgGrid)
    /\ arg_a \in {1, 2}
    /\ arg_b \in 1..MaxBeta
    /\ beta_out = <<>>

\* regularizedIncompleteBeta(x, a, b), betaCdfInv(x, a, b) and
\* betaCdfInv(regularizedIncompleteBeta(x, a, b), a, b) return
SpecialCall ==
    /\ beta_out = <<>>
    /\ beta_out' = <<[ cdf   |-> regularizedIncompleteBeta(arg_x, arg_a, arg_b),
                      inv   |-> betaCdfInv(arg_x, arg_a, arg_b),
                      round |-> betaCdfInv(regularizedIncompleteBeta(arg_x, arg_a, arg_b),
                                           arg_a, arg_b) ]>>
    /\ UNCHANGED <<arg_x, arg_a, arg_b, kvars, tvars, rvars, evars, mvars, civars, pvars, xvars>>

SpecialSpec == SpecialInit /\ [][SpecialCall]_vars

(***************************************************************************)
(* The receiver fed frames by the extension, the byte stream reaching the  *)
(* stdin handler in chunks of any size                                     *)
(***************************************************************************)
MaxFrames == 2
MaxPayload == 2

\* the payloads the extension sends
RECURSIVE PayloadsOfLen(_)
PayloadsOfLen(n) ==
    IF n = 0 THEN {<<>>}
    ELSE {Append(q, c) : q \in PayloadsOfLen(n - 1), c \in {Digit, Letter}}

Payloads == UNION {PayloadsOfLen(n) : n \in 0..MaxPayload}

ReceiverInit ==
    /\ EngineIdle
    /\ CiIdle
    /\ ManagerIdle
    /\ feed = [S \in Streams |-> [shoe |-> 1, tape |-> 1, len |-> 0]]

\* the extension writes one more frame
SendFrame(payload) ==
    /\ Len(sent) < MaxFrames
    /\ sent' = Append(sent, payload)
    /\ wire' = wire \o FrameBytes(payload)
    /\ UNCHANGED <<messageBuffer, forwarded, mainWindow, closed_once,
                   kvars, tvars, svars, evars, mvars, civars, pvars, xvars>>

\* stdinStream.on('data'), lines 107-147, with the next n bytes as chunk
OnData(n) ==
    /\ n \in 1..Len(wire)
    /\ wire' = SubSeq(wire, n + 1, Len(wire))
    /\ \E out \in {Drain(messageBuffer \o SubSeq(wire, 1, n), forwarded, mainWindow)} :
           /\ messageBuffer' = out[1]
           /\ forwarded' = out[2]
    /\ UNCHANGED <<sent, mainWindow, closed_once,
                   kvars, tvars, svars, evars, mvars, civars, pvars, xvars>>

\* the user closes the window where the app stays alive without one
\* (lines 157-161)
CloseWindow ==
    /\ mainWindow = "open"
    /\ mainWindow' = "destroyed"
    /\ closed_once' = TRUE
    /\ UNCHANGED <<sent, wire, messageBuffer, forwarded,
                   kvars, tvars, svars, evars, mvars, civars, pvars, xvars>>

\* app.on('activate'), lines 87-91: the window is created again
Activate ==
    /\ mainWindow = "destroyed"
    /\ mainWindow' = "open"
    /\ UNCHANGED <<sent, wire, messageBuffer, forwarded, closed_once,
                   kvars, tvars, svars, evars, mvars, civars, pvars, xvars>>

ReceiverNext ==
    \/ \E payload \in Payloads : SendFrame(payload)
    \/ \E n \in 1..(MaxFrames * (4 + MaxPayload)) : OnData(n)
    \/ CloseWindow
    \/ Activate

ReceiverSpec == ReceiverInit /\ [][ReceiverNext]_vars

(***************************************************************************)
(* The message pump of the worker (src/unnamed/part_002): ws.onmessage and *)
(* processLatestMessage.  The worker runs one task at a time to            *)
(* completion, so a message is delivered only while no task runs           *)
(* (pc = "idle"); the steps of the running task are separate actions.  The *)
(* callback handed to setTimeout at line 135 has no action of its own:     *)
(* timer records that it was scheduled.                                    *)
(***************************************************************************)
MaxMessages == 4

\* results of a shoe of kind k after n rounds
Shoe(k, n) == Results([shoe |-> 1, tape |-> k, len |-> n])

\* one key of message.args with its tableData
Entry(tableId, isArray, results) ==
    [tableId |-> tableId, isArray |-> isArray, results |-> results]

\* what the WebSocket delivers: text that does not parse, JSON null, a message
\* without args, and messages whose args name one or two tables
Arrivals ==
    { [kind |-> "garbage", args |-> <<>>],
      [kind |-> "null", args |-> <<>>],
      [kind |-> "noargs", args |-> <<>>],
      [kind |-> "args", args |-> <<Entry("bac1", TRUE, Shoe(1, 6))>>],
      [kind |-> "args", args |-> <<Entry("bac1", TRUE, Shoe(1, 8))>>],
      [kind |-> "args", args |-> <<Entry("bac1", TRUE, Shoe(2, 3))>>],
      [kind |-> "args", args |-> <<Entry("bac2", TRUE, Shoe(2, 6))>>],
      [kind |-> "args", args |-> <<Entry("bac2", TRUE, Shoe(3, 3))>>],
      [kind |-> "args", args |-> <<Entry("bac2", TRUE, Shoe(2, 6)),
                                   Entry("bac1", TRUE, Shoe(1, 6))>>],
      [kind |-> "args", args |-> <<Entry("rou1", TRUE, Shoe(1, 3)),
                                   Entry("bac1", FALSE, <<>>)>>] }

\* tableId.toLowerCase().includes('bac') && tableData && Array.isArray(tableData.results)
IsBaccaratTable(entry) == entry.tableId \in Streams /\ entry.isArray

\* globalPriors shared by all streams instead of keyed by tableId
SetGlobalPriorShared(priors, tableId, priorOpt) == [S \in Streams |-> priorOpt]

\* globalPriors[tableId] = finalCounts (line 183), or no write
SetGlobalPrior(priors, tableId, priorOpt) == [priors EXCEPT ![tableId] = priorOpt]

MessageInit ==
    /\ EngineIdle
    /\ CiIdle
    /\ ManagerIdle
    /\ feed = [S \in Streams |-> [shoe |-> 1, tape |-> 1, len |-> 0]]

\* ws.onmessage, lines 72-86, up to the call of processLatestMessage
OnMessage(data) ==
    /\ pc = "idle"
    /\ received < MaxMessages
    /\ received' = received + 1
    /\ IF data.kind = "garbage"
       THEN UNCHANGED <<latestMessage, pc>>
       ELSE /\ latestMessage' =
                  IF data.kind = "null" THEN <<>>
                  ELSE <<[id |-> received + 1, kind |-> data.kind, args |-> data.args]>>
            /\ pc' = IF isProcessing THEN "idle" ELSE "processLatestMessage"
    /\ UNCHANGED <<isProcessing, messageToProcess, remaining, timer, processed, solo,
                   mvars, evars, civars, fvars>>

\* processLatestMessage that leaves the message it took in latestMessage
ProcessLatestMessageKeepsLatest ==
    /\ pc = "processLatestMessage"
    /\ IF isProcessing \/ latestMessage = <<>>
       THEN /\ pc' = "idle"
            /\ UNCHANGED <<latestMessage, isProcessing, messageToProcess, remaining,
                           processed>>
       ELSE /\ isProcessing' = TRUE
            /\ messageToProcess' = latestMessage
            /\ latestMessage' = latestMessage
            /\ remaining' = latestMessage[1].args
            /\ processed' = latestMessage[1].id
            /\ pc' = "loop"
    /\ UNCHANGED <<timer, received, solo, mvars, evars, civars, fvars>>

\* processLatestMessage, lines 111-121: the guard and the taking of the message
ProcessLatestMessage ==
    /\ pc = "processLatestMessage"
    /\ IF isProcessing \/ latestMessage = <<>>
       THEN /\ pc' = "idle"
            /\ UNCHANGED <<latestMessage, isProcessing, messageToProcess, remaining,
                           processed>>
       ELSE /\ isProcessing' = TRUE
            /\ messageToProcess' = latestMessage
            /\ latestMessage' = <<>>
            /\ remaining' = latestMessage[1].args
            /\ processed' = latestMessage[1].id
            /\ pc' = "loop"
    /\ UNCHANGED <<timer, received, solo, mvars, evars, civars, fvars>>

\* one turn of the for-in loop, lines 124-129
ProcessTable ==
    /\ pc = "loop"
    /\ remaining # <<>>
    /\ remaining' = Tail(remaining)
    /\ LET entry == Head(remaining)
           S == entry.tableId
       IN  IF IsBaccaratTable(entry)
           THEN \E out \in {processBaccaratData(tableStates[S], globalPriors[S], entry.results)} :
                \E alone \in {processBaccaratData(solo[S][1], solo[S][2], entry.results)} :
                    /\ tableStates' = [tableStates EXCEPT ![S] = out[1]]
                    /\ globalPriors' = SetGlobalPrior(globalPriors, S, out[2])
                    /\ solo' = [solo EXCEPT ![S] = alone]
           ELSE UNCHANGED <<tableStates, globalPriors, solo>>
    /\ UNCHANGED <<latestMessage, isProcessing, pc, messageToProcess, timer, received,
                   processed, feed, reported, chain, lastOp, evars, civars, fvars>>

\* the finally block, lines 132-137
FinishMessage ==
    /\ pc = "loop"
    /\ remaining = <<>>
    /\ isProcessing' = FALSE
    /\ messageToProcess' = <<>>
    /\ timer' = (timer \/ latestMessage # <<>>)
    /\ pc' = "idle"
    /\ UNCHANGED <<latestMessage, remaining, received, processed, solo,
                   mvars, evars, civars, fvars>>

MessageNext ==
    \/ \E data \in Arrivals : OnMessage(data)
    \/ ProcessLatestMessage
    \/ ProcessTable
    \/ FinishMessage

MessageSpec == MessageInit /\ [][MessageNext]_vars

(***************************************************************************)
(* The message pump with reports whose processing throws, and with the     *)
(* scheduling of the worker: a task that has started runs to completion    *)
(***************************************************************************)
\* an exception that escapes the task with isProcessing left as it is
ProcessThrowsPastFinally ==
    /\ pc = "loop"
    /\ messageToProcess' = <<>>
    /\ remaining' = <<>>
    /\ pc' = "idle"
    /\ lastOp' = [type |-> "throw", tableId |-> "none", kind |-> "none"]
    /\ UNCHANGED <<latestMessage, isProcessing, timer, received, processed, solo,
                   feed, tableStates, globalPriors, reported, chain,
                   evars, civars, fvars>>

\* the try block throws (lines 121-131): the rest of the message is skipped,
\* the finally block runs (lines 132-137) and the exception leaves the task
ProcessThrows ==
    /\ pc = "loop"
    /\ isProcessing' = FALSE
    /\ messageToProcess' = <<>>
    /\ remaining' = <<>>
    /\ timer' = (timer \/ latestMessage # <<>>)
    /\ pc' = "idle"
    /\ lastOp' = [type |-> "throw", tableId |-> "none", kind |-> "none"]
    /\ UNCHANGED <<latestMessage, received, processed, solo,
                   feed, tableStates, globalPriors, reported, chain,
                   evars, civars, fvars>>

MessageLiveNext ==
    \/ \E data \in Arrivals : OnMessage(data)
    \/ ProcessLatestMessage
    \/ ProcessTable
    \/ FinishMessage
    \/ ProcessThrows

\* The steps of a running task as they show in pc and remaining: the call of
\* processLatestMessage passes or fails its guard, the loop takes a turn or
\* is left by an exception, the finally block ends the task.  Every step of
\* a task is one of these, and nothing else runs in the worker before the
\* task has ended.
TaskStarts == pc = "processLatestMessage" /\ pc' \in {"idle", "loop"}
LoopRuns == pc = "loop" /\ remaining # <<>> /\ remaining' \in {Tail(remaining), <<>>}
TaskEnds == pc = "loop" /\ remaining = <<>> /\ pc' = "idle"

MessageLiveSpec ==
    /\ MessageInit
    /\ [][MessageLiveNext]_vars
    /\ WF_pc(TaskStarts)
    /\ WF_remaining(LoopRuns)
    /\ WF_pc(TaskEnds)

(***************************************************************************)
(* Properties of the stand-alone engine                                    *)
(***************************************************************************)
\* the step is an addOutcome call that accepted its outcome
AcceptedStep == strategy'.round = strategy.round + 1
\* the step is a resetShoe call
ResetStep == strategy' = resetShoe(strategy.initial_prior, shoe_prior') /\ returned' = <<>>

Repeat(x, n) == [i \in 1..n |-> x]

\* C1: once betting_disabled is true it stays true over every later addOutcome
\* of the shoe; the only step that takes it back to false is resetShoe.
C1_LatchMonotone ==
    [][strategy.betting_disabled =>
          (strategy'.betting_disabled \/ (ResetStep /\ ~AcceptedStep))]_vars

\* the stop-loss latch set at round 13 is still set two accepted outcomes later
C1_Witness ==
    /\ strategy.recent_outcomes = Repeat("B", 12) \o <<"P", "B", "B">>
    /\ strategy.betting_disabled
    /\ strategy.stop_reason = StopNetProfit

\* C2: once the cumulative stake has reached the max exposure (10), every
\* accepted outcome of the shoe yields a decision with stake 0 whose reason
\* names the exposure stop.
C2_ExposureStop ==
    [][(AcceptedStep /\ strategy.total_staked >= max_exposure) =>
          /\ returned' # <<>>
          /\ returned'[1].decision.stake = 0
          /\ returned'[1].decision.betOn = "null"
          /\ returned'[1].decision.reason = "STOP: " \o StopMaxExposure]_vars

\* default prior, sixteen 'B': the stake reached 12 at round 14 and the
\* decisions of rounds 15 and 16 are exposure stops
C2_Witness ==
    /\ shoe_prior = DefaultPrior
    /\ strategy.recent_outcomes = Repeat("B", 16)
    /\ strategy.total_staked >= max_exposure
    /\ returned # <<>>
    /\ returned[1].decision.stake = 0
    /\ returned[1].decision.reason = "STOP: " \o StopMaxExposure

\* C3 as stated: each of the first 12 logs of a shoe started from the default
\* prior, the 12th included, has stake 0 and the warm-up reason.
C3_WarmUpTwelve ==
    (returned # <<>> /\ shoe_prior = DefaultPrior /\ returned[1].round <= warm_up_rounds) =>
        /\ returned[1].decision.stake = 0
        /\ returned[1].decision.reason = "Warm-up period"

\* C3 amended: every accepted outcome returns a log carrying its round; the
\* logs of rounds 1..11 have stake 0 and the warm-up reason; from round 12 on
\* the reason is never the warm-up one (stop, ensemble and Kelly rules decide).
C3_WarmUpEleven ==
    /\ returned # <<>> =>
          /\ returned[1].round = strategy.round
          /\ returned[1].round < warm_up_rounds =>
                /\ returned[1].decision.stake = 0
                /\ returned[1].decision.betOn = "null"
                /\ returned[1].decision.reason = "Warm-up period"
          /\ returned[1].round >= warm_up_rounds =>
                returned[1].decision.reason # "Warm-up period"
    /\ strategy.round < warm_up_rounds => strategy.total_staked = 0

\* default prior, twelve 'B': the 12th log stakes 4 units
C3_Witness ==
    /\ shoe_prior = DefaultPrior
    /\ strategy.recent_outcomes = Repeat("B", 12)
    /\ returned # <<>>
    /\ returned[1].round = warm_up_rounds
    /\ returned[1].decision.stake = 4

\* C4: an accepted outcome changes net_profit by +0.95 * s when the pending
\* decision staked s > 0 on that outcome, by -s when it staked s > 0 on
\* another one, and not at all when it staked 0 or there is none; the pending
\* decision is then replaced by the new log's, and a rejected outcome settles
\* nothing.
C4_Settlement ==
    [][/\ AcceptedStep =>
            LET o == returned'[1].outcome
                pending == strategy.current_decision_log
                s == IF pending = <<>> THEN 0 ELSE pending[1].decision.stake
            IN  /\ o \in Outcomes
                /\ s > 0 /\ pending[1].decision.betOn = o =>
                       strategy'.net_profit = strategy.net_profit + 95 * s
                /\ s > 0 /\ pending[1].decision.betOn # o =>
                       strategy'.net_profit = strategy.net_profit - 100 * s
                /\ s = 0 => strategy'.net_profit = strategy.net_profit
                /\ strategy'.current_decision_log = returned'
                /\ returned'[1].net_profit = strategy'.net_profit
       /\ (~AcceptedStep /\ ~ResetStep) =>
            /\ strategy'.net_profit = strategy.net_profit
            /\ strategy'.current_decision_log = strategy.current_decision_log]_vars

\* a 2-unit bet on 'B' was won (+1.9) and the next outcome was accepted
C4_Witness ==
    /\ returned # <<>>
    /\ returned[1].outcome = "B"
    /\ strategy.net_profit = 190

\* the Kelly tier of the round: getStakeUnitKelly on the posterior means of
\* the counts after the outcome
KellyTier(e) == getStakeUnitKelly(ShrunkCounts(e.counts))

\* C32: a log has stake > 0 only if at that round round >= warm_up_rounds,
\* betting_disabled is false, the ensemble (required by default) agrees and
\* the Kelly tier is > 0; then betOn = 'B', the stake is the tier (1..4) and
\* total_staked grows by exactly it.  In every other case betOn is null, the
\* stake is 0, total_staked is unchanged and the reason is that of the first
\* failing rule: warm-up, then stop, then ensemble, then zero Kelly stake.
C32_DecisionRule ==
    [][AcceptedStep =>
          LET e == strategy'
              d == returned'[1].decision
              warm == e.round >= warm_up_rounds
              open == ~e.betting_disabled
              agrees == getEnsembleSignal(e.recent_outcomes)
              tier == KellyTier(e)
          IN  /\ returned' # <<>>
              /\ d.stake > 0 <=> (warm /\ open /\ agrees /\ tier > 0)
              /\ d.stake > 0 =>
                    /\ d.betOn = "B"
                    /\ d.stake = tier
                    /\ tier \in 1..4
                    /\ e.total_staked = strategy.total_staked + d.stake
              /\ ~(d.stake > 0) =>
                    /\ d.betOn = "null"
                    /\ d.stake = 0
                    /\ e.total_staked = strategy.total_staked
                    /\ d.reason =
                          IF ~warm THEN "Warm-up period"
                          ELSE IF ~open THEN "STOP: " \o e.stop_reason
                          ELSE IF ~agrees THEN "Ensemble models disagree"
                          ELSE "Kelly stake is zero"]_vars

\* a second bet of the shoe, of 2 units, has been added to total_staked
C32_Witness ==
    /\ returned # <<>>
    /\ returned[1].decision.stake = 2
    /\ returned[1].decision.betOn = "B"
    /\ strategy.total_staked > 2
    /\ ~strategy.betting_disabled

\* the longest window a reader of the history takes: slice(-15), line 225
LongestWindow == 15

\* the history holds every outcome accepted since the last reset
HistoryIsWholeShoe == Len(strategy.recent_outcomes) = strategy.round

\* C33: the recent-outcome history is bounded: its length never exceeds a
\* fixed constant (the longest window read from it) however many outcomes are
\* accepted in a session.
C33_BoundedHistory == Len(strategy.recent_outcomes) <= LongestWindow

\* C34: from the addOutcome call in which betting_disabled becomes true on,
\* every decision of the shoe has stake 0, and net_profit and total_staked
\* keep the values they had at the end of that call until the next reset
\* (calls with an unrecognized outcome included).
C34_FrozenAfterLatch ==
    [][/\ (AcceptedStep /\ strategy'.betting_disabled) =>
             /\ returned'[1].decision.stake = 0
             /\ strategy'.current_decision_log[1].decision.stake = 0
       /\ (strategy.betting_disabled /\ ~(ResetStep /\ ~AcceptedStep)) =>
             /\ strategy'.net_profit = strategy.net_profit
             /\ strategy'.total_staked = strategy.total_staked]_vars

\* the stop-loss latched at round 13 after a lost 4-unit bet; three accepted
\* outcomes later, all of them Banker wins, the accounts are still those of
\* round 13
C34_Witness ==
    /\ strategy.recent_outcomes = Repeat("B", 12) \o <<"P", "B", "B", "B">>
    /\ strategy.betting_disabled
    /\ strategy.net_profit = -400
    /\ strategy.total_staked = 4
    /\ returned # <<>>
    /\ returned[1].decision.stake = 0

\* the largest stake getStakeUnitKelly returns, line 88
LargestStake == 4

\* C35: in every reachable state of the Kelly engine net_profit is strictly
\* greater than current_stop_loss - 4 (greater than -7 with the default
\* stop-loss of -3): a bet of at most 4 units is placed only while net_profit
\* is above the stop-loss.
C35_BoundedOvershoot ==
    /\ strategy.net_profit > (strategy.current_stop_loss - LargestStake) * PayoutUnit
    /\ strategy.current_stop_loss = net_profit_stop_loss_units
    /\ strategy.net_profit > -700

\* a 4-unit bet placed with net_profit above -3 was lost and took it to -5 or
\* under
C35_Witness ==
    /\ strategy.net_profit <= (net_profit_stop_loss_units - 2) * PayoutUnit
    /\ strategy.current_decision_log # <<>>
    /\ strategy.betting_disabled

\* C36: under ensemble_mode 'require_all' (use_ensemble_signal true) the
\* ensemble signal is false in every round, the streak signal (last 3 all
\* 'B') and the chop signal (last 4 exactly B,P,B,P) never holding together;
\* hence no decision of the session has stake > 0.
C36_RequireAllNeverBets ==
    /\ ~(getStreakSignal(all_strategy.recent_outcomes)
          /\ getChopSignal(all_strategy.recent_outcomes))
    /\ ~getEnsembleSignalOf("require_all", all_strategy.recent_outcomes)
    /\ all_returned # <<>> =>
          /\ ~all_returned[1].analysis.ensemble_agrees
          /\ all_returned[1].decision.stake = 0
          /\ all_returned[1].decision.betOn = "null"
    /\ all_strategy.current_decision_log # <<>> =>
          all_strategy.current_decision_log[1].decision.stake = 0
    /\ all_strategy.total_staked = 0
    /\ all_strategy.net_profit = 0

\* past the warm-up, with a positive Kelly tier, no stop and the momentum
\* and chop signals firing, the round is refused by the ensemble rule
C36_Witness ==
    /\ all_returned # <<>>
    /\ all_strategy.round >= warm_up_rounds
    /\ ~all_strategy.betting_disabled
    /\ KellyTier(all_strategy) > 0
    /\ getMomentumSignal(all_strategy.recent_outcomes)
    /\ getChopSignal(all_strategy.recent_outcomes)
    /\ all_returned[1].decision.reason = "Ensemble models disagree"

\* C10: round is the number of accepted outcomes since the last reset, each
\* count is its prior value plus the number of accepted outcomes of its
\* category; an accepted outcome adds 1 to its own count and leaves the other
\* two alone, and no count decreases except by a reset.
C10_Bookkeeping ==
    /\ [](/\ strategy.round = Len(strategy.recent_outcomes)
          /\ \A c \in Outcomes :
                strategy.counts[c] = shoe_prior[c] + CountOf(strategy.recent_outcomes, c))
    /\ [][/\ AcceptedStep =>
               /\ strategy'.recent_outcomes =
                      Append(strategy.recent_outcomes, returned'[1].outcome)
               /\ \A c \in Outcomes :
                      strategy'.counts[c] =
                          strategy.counts[c] + (IF c = returned'[1].outcome THEN 1 ELSE 0)
          /\ ~ResetStep => \A c \in Outcomes : strategy'.counts[c] >= strategy.counts[c]
          /\ (~AcceptedStep /\ ~ResetStep) => strategy'.round = strategy.round]_vars

\* a shoe started from the second prior with outcomes of all three categories
C10_Witness ==
    /\ shoe_prior = [B |-> 2, P |-> 5, T |-> 1]
    /\ strategy.recent_outcomes = <<"P", "P", "T", "B", "B">>
    /\ strategy.counts = [B |-> 4, P |-> 7, T |-> 2]
    /\ strategy.round = 5


\* C13: every log of the Kelly engine carries the sign of
\* posterior_mean.B * 0.95 - posterior_mean.P as its EV; a stake above 0 comes
\* with a positive EV only, and an EV of 0 or less comes with confidence 0 and
\* stake 0.
C13_NoBetWithoutEdge ==
    returned # <<>> =>
        LET log == returned[1]
            shB == 10000 * log.counts.B + shrinkage_strength * GLOBAL_BANKER_RATE
            shP == 10000 * log.counts.P + shrinkage_strength * GLOBAL_PLAYER_RATE
            ev_is_positive == PayoutWin * shB > PayoutUnit * shP
        IN  /\ log.analysis.ev_positive = ev_is_positive
            /\ log.decision.stake > 0 => ev_is_positive
            /\ ~ev_is_positive => (log.confidence = "0" /\ log.decision.stake = 0)

\* past the warm-up, betting enabled and the ensemble agreeing, the engine
\* declines for want of a positive EV
C13_Witness ==
    /\ returned # <<>>
    /\ returned[1].round >= warm_up_rounds
    /\ ~strategy.betting_disabled
    /\ returned[1].analysis.ensemble_agrees
    /\ ~returned[1].analysis.ev_positive
    /\ returned[1].confidence = "0"
    /\ returned[1].decision.reason = "Kelly stake is zero"

CusumStates ==
    { [cusum_sum |-> 0, betting_disabled_cusum |-> FALSE, change_point_detected |-> FALSE],
      [cusum_sum |-> cusum_threshold + 1, betting_disabled_cusum |-> TRUE,
       change_point_detected |-> TRUE] }

\* engine e with the detector in state c
WithCusum(e, c) ==
    [e EXCEPT !.cusum_sum = c.cusum_sum,
              !.betting_disabled_cusum = c.betting_disabled_cusum,
              !.change_point_detected = c.change_point_detected]

\* what an engine bets and holds, the detector aside
Betting(e) ==
    [ counts           |-> e.counts,
      round            |-> e.round,
      recent_outcomes  |-> e.recent_outcomes,
      net_profit       |-> e.net_profit,
      total_staked     |-> e.total_staked,
      betting_disabled |-> e.betting_disabled,
      stop_reason      |-> e.stop_reason,
      decision         |-> IF e.current_decision_log = <<>> THEN <<>>
                           ELSE <<[betOn |-> e.current_decision_log[1].decision.betOn,
                                   stake |-> e.current_decision_log[1].decision.stake]>> ]

\* C15: from every reachable engine, and from the same engine with any other
\* detector state, each input leads to the same decision (betOn, stake), the
\* same net_profit, total_staked and betting_disabled and the same rest of the
\* betting state; two engines that differ in the detector only therefore stay
\* so, round after round.
C15_DetectorsDoNotGate ==
    \A o \in Inputs :
        \E base \in {addOutcome(strategy, o)} :
            \A c \in CusumStates :
                \E other \in {addOutcome(WithCusum(strategy, c), o)} :
                    /\ Betting(other[1]) = Betting(base[1])
                    /\ (other[2] = <<>>) = (base[2] = <<>>)

\* the detector has fired and the engine still bets
C15_Witness ==
    /\ strategy.change_point_detected
    /\ strategy.betting_disabled_cusum
    /\ returned # <<>>
    /\ returned[1].decision.stake > 0
    /\ returned[1].analysis.change_point_detected

\* C12 as stated: in every reachable state total_staked is at most
\* current_max_exposure.
C12_ExposureCap == strategy.total_staked <= strategy.current_max_exposure

(***************************************************************************)
(* Properties of the two engines side by side                              *)
(***************************************************************************)
\* the step is a resetShoe call on the engine of src/strategy.js
CiResetStep == ci_strategy' = ciResetShoe(ci_strategy, shoe_prior') /\ ci_returned' = <<>>

\* C11: addOutcome with a value other than 'B', 'P', 'T' returns no log and
\* leaves every field of the engine as it was, in both implementations, so the
\* pending decision settles against the next valid outcome as it would have.
C11_RejectUnrecognized ==
    \A o \in Inputs \ Outcomes :
        /\ addOutcome(strategy, o) = <<strategy, <<>>>>
        /\ ciAddOutcome(ci_strategy, o) = <<ci_strategy, <<>>>>
        /\ \A v \in Outcomes :
              /\ Settle(addOutcome(strategy, o)[1], v) = Settle(strategy, v)
              /\ ciSettle(ciAddOutcome(ci_strategy, o)[1], v) = ciSettle(ci_strategy, v)

\* both engines hold a bet decided at round 12 and have just rejected a value
C11_Witness ==
    /\ returned = <<>>
    /\ ci_returned = <<>>
    /\ strategy.round = 12
    /\ ci_strategy.round = 12
    /\ strategy.current_decision_log # <<>>
    /\ strategy.current_decision_log[1].decision.stake > 0
    /\ ci_strategy.current_decision # <<>>
    /\ ci_strategy.current_decision[1].stake > 0

\* C16: cusum_sum is never negative; the change-point flags are set exactly
\* when cusum_sum is above the threshold; once set they stay set and cusum_sum
\* stays as it is over every later call of the shoe (in src/strategy.js the
\* flag is betting_disabled_cusum alone).
C16_CusumLatch ==
    /\ [](/\ strategy.cusum_sum >= 0
          /\ strategy.change_point_detected = (strategy.cusum_sum > cusum_threshold)
          /\ strategy.betting_disabled_cusum = strategy.change_point_detected
          /\ ci_strategy.cusum_sum >= 0
          /\ ci_strategy.betting_disabled_cusum = (ci_strategy.cusum_sum > cusum_threshold))
    /\ [][/\ (strategy.change_point_detected /\ ~ResetStep) =>
                /\ strategy'.change_point_detected
                /\ strategy'.betting_disabled_cusum
                /\ strategy'.cusum_sum = strategy.cusum_sum
          /\ (ci_strategy.betting_disabled_cusum /\ ~CiResetStep) =>
                /\ ci_strategy'.betting_disabled_cusum
                /\ ci_strategy'.cusum_sum = ci_strategy.cusum_sum]_vars

\* both detectors fired and at least two more outcomes were accepted since
C16_Witness ==
    /\ strategy.change_point_detected
    /\ ci_strategy.betting_disabled_cusum
    /\ returned # <<>>
    /\ returned[1].outcome = "P"
    /\ strategy.recent_outcomes[strategy.round - 1] = "P"
    /\ strategy.recent_outcomes[strategy.round - 2] = "B"
    /\ strategy.round = 13

\* C17: a decision of the SPRT other than 'inconclusive' and the log_lr it was
\* taken at stay as they are over every later addOutcome of the shoe; the
\* decision is 'accept_h1' only with log_lr at or above the upper boundary,
\* 'accept_h0' only with log_lr at or below the lower one, and 'inconclusive'
\* with log_lr strictly between the two.
C17_SprtTerminal ==
    /\ [](LET sprt == ci_strategy.sprt_state
          IN  /\ sprt.decision \in {"inconclusive", "accept_h1", "accept_h0"}
              /\ sprt.upper_boundary = sprt_upper_boundary
              /\ sprt.lower_boundary = sprt_lower_boundary
              /\ sprt.decision = "accept_h1" => sprt.log_lr >= sprt.upper_boundary
              /\ sprt.decision = "accept_h0" =>
                     (sprt.log_lr <= sprt.lower_boundary /\ ci_strategy.betting_disabled_sprt)
              /\ sprt.decision = "inconclusive" =>
                     /\ sprt.log_lr > sprt.lower_boundary
                     /\ sprt.log_lr < sprt.upper_boundary)
    /\ [][(ci_strategy.sprt_state.decision # "inconclusive" /\ ~CiResetStep) =>
              ci_strategy'.sprt_state = ci_strategy.sprt_state]_vars

\* the test accepted H1 and three more outcomes, Player wins, were accepted
C17_Witness ==
    /\ ci_strategy.sprt_state.decision = "accept_h1"
    /\ ci_strategy.round = 13
    /\ ci_returned # <<>>
    /\ ci_returned[1].outcome = "P"
    /\ strategy.recent_outcomes = Repeat("B", 10) \o Repeat("P", 3)

\* the engines e1 and e2 differ at most in config.initial_prior
SameButConfig(e1, e2) == [e1 EXCEPT !.initial_prior = e2.initial_prior] = e2

\* the Kelly engine after resetShoe(prior) answers every outcome as a newly
\* constructed engine with that prior does, and settles nothing
KellyResetIsFresh ==
    ResetStep =>
        \A o \in Outcomes :
            LET a == addOutcome(strategy', o)
                f == addOutcome(NewStrategy(shoe_prior'), o)
            IN  a[2] = f[2] /\ SameButConfig(a[1], f[1]) /\ a[1].net_profit = 0

\* the same for the engine of src/strategy.js
CiResetIsFresh ==
    CiResetStep =>
        \A o \in Outcomes :
            LET a == ciAddOutcome(ci_strategy', o)
                f == ciAddOutcome(NewCiStrategy(shoe_prior', ci_strategy.epsilon), o)
            IN  a[2] = f[2] /\ SameButConfig(a[1], f[1]) /\ a[1].net_profit = 0

\* config.initial_prior is read by the constructor only: it changes no log
ConfigPriorUnread ==
    \A o \in Outcomes, q \in Priors :
        /\ addOutcome([strategy' EXCEPT !.initial_prior = q], o)[2] =
               addOutcome(strategy', o)[2]
        /\ ciAddOutcome([ci_strategy' EXCEPT !.initial_prior = q], o)[2] =
               ciAddOutcome(ci_strategy', o)[2]

\* C26: after resetShoe(prior) an engine of either implementation behaves as
\* a newly constructed engine with that prior: the next addOutcome returns the
\* same DecisionLog and leads to the same state, whatever the outcome, and it
\* settles no pending decision (net_profit stays 0).
C26_ResetRestoresFresh ==
    [][KellyResetIsFresh /\ CiResetIsFresh /\ ConfigPriorUnread]_vars

\* the counts of the shoe in play after its first j outcomes
CountsAfter(j) ==
    LET s == SubSeq(strategy.recent_outcomes, 1, j)
    IN  [B |-> shoe_prior.B + CountOf(s, "B"),
         P |-> shoe_prior.P + CountOf(s, "P"),
         T |-> shoe_prior.T + CountOf(s, "T")]

\* rounds k-4 .. k of the shoe in play all had a Banker count of at most 2,
\* for which the confidence index is NaN and is reported as 0
FiveLowRounds(k) == \A j \in (k - 4)..k : CountsAfter(j).B <= 2 /\ Confidence(CountsAfter(j)) = 0

\* C27: once the confidence index of the src/strategy.js engine has been below
\* 0.60 for 5 consecutive rounds of a shoe, betting is disabled and the
\* decision of every later round of the shoe stakes nothing.
C27_ConfidenceStopLoss ==
    (\E k \in 5..Len(strategy.recent_outcomes) : FiveLowRounds(k))
        => /\ ci_strategy.betting_disabled
           /\ ci_strategy.current_decision # <<>> => ci_strategy.current_decision[1].stake = 0

(***************************************************************************)
(* Properties of getStakeUnitKelly, checked under KellyCallSpec            *)
(***************************************************************************)
\* numerator of f = (p_win * 0.95 - p_lose) / 0.95 over 95 * KellyGrid
KellyEdge == PayoutWin * p_win - PayoutUnit * p_lose

\* g = kelly_fraction * f is above t hundredths
StakeFractionAbove(t) == kelly_fraction * KellyEdge > PayoutWin * t * KellyGrid

\* C30: getStakeUnitKelly returns 0 when f <= 0; otherwise 4 if g > 0.15, 3 if
\* 0.10 < g <= 0.15, 2 if 0.05 < g <= 0.10, 1 if 0.02 < g <= 0.05 and 0 if
\* g <= 0.02; the result is an integer in 0..4, does not decrease when p_win
\* grows and does not increase when p_lose grows.
C30_KellyTiers ==
    kelly_stake # <<>> =>
        /\ kelly_stake[1] \in 0..4
        /\ kelly_stake[1] =
               ( IF KellyEdge <= 0 THEN 0
                 ELSE IF StakeFractionAbove(15) THEN 4
                 ELSE IF StakeFractionAbove(10) THEN 3
                 ELSE IF StakeFractionAbove(5) THEN 2
                 ELSE IF StakeFractionAbove(2) THEN 1
                 ELSE 0 )
        /\ \A w \in p_win..(KellyGrid - p_lose) :
               getStakeUnitKelly(KellyArgs(w, p_lose)) >= kelly_stake[1]
        /\ \A l \in p_lose..(KellyGrid - p_win) :
               getStakeUnitKelly(KellyArgs(p_win, l)) <= kelly_stake[1]

\* a call with a positive edge whose g is exactly 0.10 returned 2
C30_Witness ==
    /\ kelly_stake = <<2>>
    /\ KellyEdge > 0
    /\ kelly_fraction * KellyEdge = PayoutWin * 10 * KellyGrid

(***************************************************************************)
(* Properties of the PerformanceTracker classes, checked under TrackerSpec *)
(***************************************************************************)
\* the calls since reset whose decision staked something
BetCalls == SelectSeq(calls, LAMBDA c : c.log.decision.stake > 0)

\* the sum of the stakes of the calls of cs that were won (won = TRUE) or
\* lost (won = FALSE)
RECURSIVE StakeSum(_, _)
StakeSum(cs, won) ==
    IF cs = <<>> THEN 0
    ELSE (IF (Head(cs).log.decision.betOn = Head(cs).actualOutcome) = won
          THEN Head(cs).log.decision.stake ELSE 0) + StakeSum(Tail(cs), won)

\* the aggregates of a tracker t agree with the calls since reset
Aggregates(t) ==
    /\ t.outcomes_observed = Len(calls)
    /\ t.relaxed_metrics.bets_made = Len(BetCalls)
    /\ t.relaxed_metrics.bets_made = t.relaxed_metrics.wins + t.relaxed_metrics.losses
    /\ t.relaxed_metrics.units_staked = StakeSum(BetCalls, TRUE) + StakeSum(BetCalls, FALSE)
    /\ t.net_profit_units =
           PayoutWin * StakeSum(BetCalls, TRUE) - PayoutUnit * StakeSum(BetCalls, FALSE)

\* a call whose decision stakes 0 leaves profit and bet counters of t as they are
ZeroStakeNeutral(t, after) ==
    /\ after.net_profit_units = t.net_profit_units
    /\ after.relaxed_metrics = t.relaxed_metrics

\* C25: after any sequence of recordDecision calls since reset,
\* outcomes_observed is the number of calls, bets_made = wins + losses is the
\* number of calls that staked something, units_staked is the sum of their
\* stakes, net_profit_units is 0.95 times the stakes won minus the stakes lost,
\* and in the dual-mode tracker signals_fired + missed_wins + avoided_losses
\* is outcomes_observed; a call with stake 0 changes no profit or bet counter.
C25_TrackerAggregates ==
    /\ Aggregates(tracker)
    /\ Aggregates(dual_tracker)
    /\ dual_tracker.strict_metrics.signals_fired + dual_tracker.strict_metrics.missed_wins
           + dual_tracker.strict_metrics.avoided_losses = dual_tracker.outcomes_observed
    /\ \A strict_signal \in BOOLEAN, actualOutcome \in Outcomes :
           LET log == [ round    |-> Len(calls) + 1,
                        decision |-> [betOn |-> "null", stake |-> 0, reason |-> "Warm-up period"],
                        analysis |-> [strict_signal |-> strict_signal] ]
           IN  /\ ZeroStakeNeutral(tracker, recordDecision(tracker, log, actualOutcome))
               /\ ZeroStakeNeutral(dual_tracker,
                                   recordDecisionDual(dual_tracker, log, actualOutcome))

\* both trackers have recorded a call without stake, a bet won and a bet lost
C25_Witness ==
    /\ Len(calls) = 3
    /\ tracker.outcomes_observed = 3
    /\ tracker.relaxed_metrics.wins = 1
    /\ tracker.relaxed_metrics.losses = 1
    /\ dual_tracker.relaxed_metrics.bets_made = 2
    /\ dual_tracker.strict_metrics.signals_fired = 1

(***************************************************************************)
(* Properties of the special functions, checked under SpecialSpec          *)
(***************************************************************************)
\* C28: regularizedIncompleteBeta(x, a, b) is NaN for every x < 0 or x > 1
\* and betaCdfInv(p, a, b) is NaN for every p < 0 or p > 1; at 0 both return
\* 0 and at 1 both return 1.
C28_DomainSentinel ==
    beta_out # <<>> =>
        /\ (arg_x.v < 0 \/ arg_x.v > One) => beta_out[1].cdf = NaN /\ beta_out[1].inv = NaN
        /\ arg_x.v = 0 => beta_out[1].cdf = Num(0) /\ beta_out[1].inv = Num(0)
        /\ arg_x.v = One => beta_out[1].cdf = Num(One) /\ beta_out[1].inv = Num(One)

\* C29: for x in (0.01, 0.99), betaCdfInv(regularizedIncompleteBeta(x, a, b),
\* a, b) is a number that differs from x by less than 1e-6.
C29_RoundTrip ==
    (beta_out # <<>> /\ arg_x.v > One \div 100 /\ arg_x.v < One - One \div 100) =>
        /\ ~beta_out[1].round.nan
        /\ beta_out[1].round.v - arg_x.v < 1
        /\ arg_x.v - beta_out[1].round.v < 1

(***************************************************************************)
(* Properties of the native-messaging receiver, checked under ReceiverSpec *)
(***************************************************************************)
\* the byte stream of a sequence of frames
RECURSIVE Stream(_)
Stream(payloads) ==
    IF payloads = <<>> THEN <<>>
    ELSE FrameBytes(Head(payloads)) \o Stream(Tail(payloads))

\* the number of bytes the stdin handler has been handed so far
Delivered == Len(Stream(sent)) - Len(wire)

\* the number of frames whose last byte has been handed to the handler
CompleteFrames ==
    CHOOSE k \in 0..Len(sent) :
        /\ Len(Stream(SubSeq(sent, 1, k))) <= Delivered
        /\ k < Len(sent) => Len(Stream(SubSeq(sent, 1, k + 1))) > Delivered

\* the messages of the payloads that parse, in order
RECURSIVE MessagesOf(_)
MessagesOf(payloads) ==
    IF payloads = <<>> THEN <<>>
    ELSE (IF Parses(Head(payloads)) THEN <<ParsedValue(Head(payloads))>> ELSE <<>>)
             \o MessagesOf(Tail(payloads))

FractionLeq(a, b) == a.num * b.den <= b.num * a.den

\* the calibrated value of the highest breakpoint not exceeding k / ConfGrid
HighestBreakpoint(k) ==
    LET below == {b \in DOMAIN calibration_map : b * ConfGrid <= k * 100}
        top   == CHOOSE b \in below : \A c \in below : c <= b
    IN  [num |-> calibration_map[top], den |-> 100]

\* at or above the lowest breakpoint the call returns the value of the
\* highest breakpoint not exceeding the confidence
BreakpointLookup ==
    cal_out # <<>> =>
        \A i \in 1..2 :
            LET k == <<cal_lo, cal_hi>>[i]
            IN  (\E b \in DOMAIN calibration_map : b * ConfGrid <= k * 100)
                    => cal_out[i] = HighestBreakpoint(k)

\* C31: with the default breakpoint table getCalibratedConfidence is
\* monotonically non-decreasing over [0, 1] (c1 <= c2 implies
\* calibrated(c1) <= calibrated(c2)), and at or above the lowest breakpoint it
\* returns the value of the highest breakpoint not exceeding the confidence
C31_CalibrationMonotone ==
    /\ BreakpointLookup
    /\ (cal_out # <<>> /\ cal_lo <= cal_hi) => FractionLeq(cal_out[1], cal_out[2])

(***************************************************************************)
(* Claims about the session manager, checked under ManagerSpec             *)
(***************************************************************************)
\* the step is the processing of a report for stream S
ReportStep(S) == lastOp'.type = "report" /\ lastOp'.tableId = S /\ feed' = feed

\* the classifiable outcomes of a results list, in list order
Classify(results) ==
    SelectSeq([i \in 1..Len(results) |-> translateOutcome(results[i])],
              LAMBDA o : o # "null")

\* the engine e after addOutcome of each element of outs, once, in order
RECURSIVE FeedAll(_, _)
FeedAll(e, outs) ==
    IF outs = <<>> THEN e
    ELSE CHOOSE r \in { FeedAll(e1, Tail(outs)) :
                            e1 \in {addOutcome(e, Head(outs))[1]} } : TRUE

\* the prior a new session of stream S is seeded from
SessionPrior(S) == IF globalPriors[S] # <<>> THEN globalPriors[S][1] ELSE DefaultPrior

\* C5: a report for S whose results list is as long as the recorded length
\* lastRound changes nothing of S: engine, tracker, lastRound, stop mark and
\* stored prior stay as they are, so repeating it any number of times does too.
C5_IdempotentReplay ==
    [][\A S \in Streams :
          ( /\ ReportStep(S)
            /\ tableStates[S] # <<>>
            /\ Len(Results(feed[S])) = tableStates[S][1].lastRound )
          => /\ tableStates'[S] = tableStates[S]
             /\ globalPriors'[S] = globalPriors[S]]_vars

\* a repeated report met a session that has bet
C5_Witness ==
    /\ lastOp = [type |-> "report", tableId |-> "bac1", kind |-> "same"]
    /\ tableStates["bac1"] # <<>>
    /\ tableStates["bac1"][1].lastRound = Len(Results(feed["bac1"]))
    /\ tableStates["bac1"][1].lastRound >= 13
    /\ tableStates["bac1"][1].strategy.total_staked > 0
    /\ tableStates["bac1"][1].tracker.relaxed_metrics.bets_made > 0

\* C6: every report for S whose results list is shorter than the recorded
\* length, whatever its length, replaces the engine by a fresh one to which
\* the outcomes of the report are applied.
C6_ShorterIsBoundary ==
    [][\A S \in Streams :
          ( /\ ReportStep(S)
            /\ tableStates[S] # <<>>
            /\ Len(Results(feed[S])) < tableStates[S][1].lastRound )
          => /\ tableStates'[S] # <<>>
             /\ tableStates'[S][1].strategy =
                    FeedAll(NewStrategy(tableStates'[S][1].strategy.initial_prior),
                            Classify(Results(feed[S])))
             /\ tableStates'[S][1].lastRound = Len(Results(feed[S]))]_vars

\* C7: a detected boundary for S stores, for each category, 1 + 0.2 * (final
\* count of the ending engine) as the prior of S; stated on five times the
\* values, which are whole numbers.
C7_PriorShrinkage ==
    [][\A S \in Streams :
          (ReportStep(S) /\ lastOp'.kind = "boundary")
          => /\ globalPriors'[S] # <<>>
             /\ \A cat \in Outcomes :
                    5 * globalPriors'[S][1][cat] =
                        5 + tableStates[S][1].strategy.counts[cat]]_vars

\* C8: at a boundary the manager acts on, the counts of the ending engine as
\* they were before the report are stored as the prior of S before the new
\* engine is built; the new engine starts from round 0, net_profit 0,
\* total_staked 0, betting enabled and counts equal to the stored prior; the
\* outcomes of the report go to the new engine only, whose round ends as the
\* number of classifiable records of the report.
C8_AtomicReplacement ==
    [][\A S \in Streams :
          (ReportStep(S) /\ lastOp'.kind = "boundary")
          => LET old == tableStates[S][1].strategy
                 results == Results(feed[S])
                 fresh == NewStrategy(globalPriors'[S][1])
                 new == tableStates'[S][1]
             IN  /\ globalPriors'[S] = <<old.counts>>
                 /\ fresh.round = 0 /\ fresh.net_profit = 0
                 /\ fresh.total_staked = 0 /\ ~fresh.betting_disabled
                 /\ fresh.counts = globalPriors'[S][1]
                 /\ new.strategy = FeedAll(fresh, Classify(results))
                 /\ new.strategy.round = Len(Classify(results))
                 /\ new.tracker.outcomes_observed = Max(0, Len(Classify(results)) - 1)
                 /\ new.lastRound = Len(results)]_vars

\* a boundary report that ended a session which had seen outcomes and whose
\* own list carries classifiable records for the new engine
C8_Witness ==
    /\ lastOp = [type |-> "report", tableId |-> "bac1", kind |-> "boundary"]
    /\ tableStates["bac1"] # <<>>
    /\ globalPriors["bac1"] # <<>>
    /\ globalPriors["bac1"][1] # DefaultPrior
    /\ tableStates["bac1"][1].strategy.initial_prior = globalPriors["bac1"][1]
    /\ tableStates["bac1"][1].strategy.round >= 2
    /\ tableStates["bac1"][1].lastRound > tableStates["bac1"][1].strategy.round

\* C9: while each results list of S extends the one before it, the engine of
\* S is the engine of a fresh session fed the classifiable outcomes of the
\* latest list once each, in list order, however the growth was split across
\* reports, and lastRound is the length of that list.
C9_DiffReplay ==
    \A S \in Streams :
        (tableStates[S] # <<>> /\ chain[S])
        => /\ tableStates[S][1].strategy =
                  FeedAll(NewStrategy(SessionPrior(S)), Classify(reported[S]))
           /\ tableStates[S][1].lastRound = Len(reported[S])

\* a list grown over several reports, with skipped records, into betting rounds
C9_Witness ==
    /\ lastOp = [type |-> "report", tableId |-> "bac1", kind |-> "extend"]
    /\ chain["bac1"]
    /\ tableStates["bac1"] # <<>>
    /\ tableStates["bac1"][1].strategy.round >= 13
    /\ tableStates["bac1"][1].strategy.total_staked > 0
    /\ Len(reported["bac1"]) > tableStates["bac1"][1].strategy.round

\* C20: the GlobalPrior of a stream changes only in a step that processes a
\* report for that stream which meets an existing session and is shorter than
\* the session's last length; a first report, a report of equal length and a
\* report that extends the list leave it as it is.
C20_PriorOnlyAtBoundary ==
    [][\A S \in Streams :
          globalPriors'[S] # globalPriors[S] =>
              /\ ReportStep(S)
              /\ tableStates[S] # <<>>
              /\ feed[S].len < tableStates[S][1].lastRound]_vars

\* a second shoe is being extended: the prior stored at the boundary is still
\* there and differs from the counts the engine has reached
C20_Witness ==
    /\ lastOp.type = "report"
    /\ lastOp.kind = "extend"
    /\ globalPriors["bac1"] # <<>>
    /\ tableStates["bac1"] # <<>>
    /\ tableStates["bac1"][1].strategy.counts # globalPriors["bac1"][1]
    /\ tableStates["bac1"][1].strategy.round > 0

\* C21: whenever the session of a stream is destroyed or replaced, the counts
\* of its engine are first stored as the prior of that stream.
C21_FoldBeforeDiscard ==
    [][\A S \in Streams :
          (/\ tableStates[S] # <<>>
           /\ \/ tableStates'[S] = <<>>
              \/ (ReportStep(S) /\ lastOp'.kind = "boundary")) =>
              globalPriors'[S] = <<tableStates[S][1].strategy.counts>>]_vars

\* the shapes a record of tableData.results can have: null, or an object with
\* a tie flag and a colour field ("undefined" when it carries none)
RecordShapes ==
    {recNull} \cup [null : {FALSE}, ties : BOOLEAN, c : {"R", "B", "X", "undefined"}]

\* the category the classification rule gives a record
Category(r) ==
    IF r.null THEN "null"
    ELSE IF r.ties THEN "T"
    ELSE CASE r.c = "R" -> "B"
           [] r.c = "B" -> "P"
           [] OTHER     -> "null"

\* C23: a record with ties true is classified 'T' whatever its c field,
\* otherwise c = 'R' gives 'B' and c = 'B' gives 'P', and every other record
\* (null included) gives no category; a report that extends the list adds one
\* engine round per record that has a category, and when none of the new
\* records has one the engine and the tracker stay as they are.
C23_RecordClassification ==
    [][/\ \A r \in RecordShapes : translateOutcome(r) = Category(r)
       /\ \A S \in Streams :
            ( /\ ReportStep(S)
              /\ lastOp'.kind \in {"extend", "fill"} ) =>
              LET new == SliceFrom(Results(feed[S]), tableStates[S][1].lastRound)
                  n   == Cardinality({i \in 1..Len(new) : Category(new[i]) # "null"})
              IN  /\ tableStates'[S][1].strategy.round =
                         tableStates[S][1].strategy.round + n
                  /\ n = 0 => /\ tableStates'[S][1].strategy = tableStates[S][1].strategy
                              /\ tableStates'[S][1].tracker = tableStates[S][1].tracker]_vars

\* a list holding a null record, a record of unknown colour and a tie that
\* carries a colour was replayed: three of its five records reached the engine
C23_Witness ==
    /\ lastOp = [type |-> "report", tableId |-> "bac1", kind |-> "extend"]
    /\ feed["bac1"].tape = 3
    /\ Len(reported["bac1"]) = 5
    /\ tableStates["bac1"] # <<>>
    /\ tableStates["bac1"][1].lastRound = 5
    /\ tableStates["bac1"][1].strategy.round = 3
    /\ tableStates["bac1"][1].strategy.counts.T =
           tableStates["bac1"][1].strategy.initial_prior.T + 1

\* the category the classification rule gives a record that may be a string
TagCategory(r) ==
    IF "str" \in DOMAIN r
    THEN CASE r.str = "Player" -> "P"
           [] r.str = "Banker" -> "B"
           [] OTHER            -> "T"
    ELSE Category(r)

\* C24: an outcome given as a plain string is classified 'P' for "Player",
\* 'B' for "Banker" and 'T' for any other string, and reaches the engine like
\* any classified outcome: the engine of a session is a fresh engine fed the
\* categories of the reported list.
C24_StringTags ==
    \A S \in Streams :
        (tableStates[S] # <<>> /\ chain[S])
        => tableStates[S][1].strategy =
               FeedAll(NewStrategy(SessionPrior(S)),
                       SelectSeq([i \in 1..Len(reported[S]) |-> TagCategory(reported[S][i])],
                                 LAMBDA o : o # "null"))

\* C37: after every processed report the tracker of a session agrees with its
\* engine: tracker.net_profit_units equals net_profit, relaxed_metrics.
\* units_staked equals total_staked minus the stake of the still-pending
\* decision, and outcomes_observed equals round - 1 whenever round >= 1 (each
\* decision is recorded against the outcome that follows it).
C37_TrackerAgrees ==
    \A S \in Streams :
        tableStates[S] # <<>> =>
            LET e == tableStates[S][1].strategy
                t == tableStates[S][1].tracker
                pending == IF e.current_decision_log = <<>> THEN 0
                           ELSE e.current_decision_log[1].decision.stake
            IN  /\ t.net_profit_units = e.net_profit
                /\ t.relaxed_metrics.units_staked = e.total_staked - pending
                /\ e.round >= 1 => t.outcomes_observed = e.round - 1
                /\ e.round = 0 => t.outcomes_observed = 0

\* a session with a settled bet in both accounts and another bet pending
C37_Witness ==
    \E S \in Streams :
        /\ tableStates[S] # <<>>
        /\ tableStates[S][1].tracker.relaxed_metrics.bets_made >= 1
        /\ tableStates[S][1].tracker.net_profit_units # 0
        /\ tableStates[S][1].strategy.current_decision_log # <<>>
        /\ tableStates[S][1].strategy.current_decision_log[1].decision.stake > 0
        /\ tableStates[S][1].strategy.total_staked
               > tableStates[S][1].tracker.relaxed_metrics.units_staked

\* the WebSockets that are connecting or open; their handlers are attached
Alive == {k \in 1..Len(net.sockets) : net.sockets[k] \in {"connecting", "open"}}

\* C38: under every interleaving of CONNECT/DISCONNECT messages, reconnect
\* and heartbeat timers, socket close events and cookie callbacks, at most
\* one WebSocket is alive with its handlers attached, and ws refers to it.
C38_SingleConnection ==
    /\ Cardinality(Alive) <= 1
    /\ \A k \in Alive : net.ws = k

\* C39: once all pending storage callbacks of logCalibrationData have run the
\* stored calibrationData holds every entry that was logged, in logging
\* order, truncated to the most recent 1000, also when several entries are
\* logged before the first read completes; the stored list never has more
\* than 1000 entries.
C39_NoLostEntries ==
    /\ Len(calibrationData) <= KeptEntries
    /\ (storage_requests = <<>> /\ storage_results = <<>>) =>
          calibrationData = SliceLast(logged, KeptEntries)

C19_StreamsIndependent ==
    /\ [](\A S \in Streams : <<tableStates[S], globalPriors[S]>> = solo[S])
    /\ [][\A S \in Streams :
              (tableStates'[S] # tableStates[S] \/ globalPriors'[S] # globalPriors[S]) =>
                  /\ pc = "loop"
                  /\ remaining # <<>>
                  /\ Head(remaining).tableId = S]_vars

\* bac2 went through a boundary and holds a prior; bac1, reported in between
\* and after, holds none
C19_Witness ==
    /\ globalPriors["bac2"] # <<>>
    /\ globalPriors["bac1"] = <<>>
    /\ tableStates["bac1"] # <<>>
    /\ tableStates["bac1"][1].lastRound = 8
    /\ tableStates["bac2"] # <<>>
    /\ tableStates["bac2"][1].lastRound = 3
    /\ received = 4

\* C40: every report received is eventually processed or superseded by a
\* later one; whenever no task runs nothing is left waiting, so once reports
\* stop arriving the last one has been processed; and isProcessing always
\* returns to false, also when processing a report throws.
C40_CoalescingLiveness ==
    /\ \A k \in 1..MaxMessages :
          (latestMessage # <<>> /\ latestMessage[1].id = k) ~> (processed >= k)
    /\ isProcessing ~> ~isProcessing
    /\ []<>(pc = "idle" /\ ~isProcessing /\ latestMessage = <<>>)
    /\ [](pc = "idle" => (~isProcessing /\ latestMessage = <<>> /\ ~timer))

\* the processing of the last report received threw: the flag is down again
\* and nothing waits
C40_Witness ==
    /\ lastOp.type = "throw"
    /\ received = MaxMessages
    /\ processed = received
    /\ pc = "idle"
    /\ ~isProcessing
    /\ latestMessage = <<>>

=============================================================================
